---- MODULE Spec2Model ----
(***************************************************************************)
(* Rate-aware request gateway of packages/edge-worker:                     *)
(*   RateLimitTracker  (src/packages/edge-worker/src/RateLimitTracker.ts)  *)
(*   RequestQueue      (src/packages/edge-worker/src/RequestQueue.ts)      *)
(*   IssueCache        (src/packages/edge-worker/src/IssueCache.ts)        *)
(*   LinearClientWrapper                                                   *)
(*               (src/packages/edge-worker/src/LinearClientWrapper.ts)     *)
(* The JavaScript run-time is single threaded: a handler runs to its next  *)
(* await without interleaving.  The processing loop of                     *)
(* RequestQueue.processQueue is modelled one iteration per step; while the *)
(* loop is running synchronously (pc = "loop") no other handler can run.   *)
(***************************************************************************)
EXTENDS Integers, Sequences, FiniteSets, TLC

VARIABLES
    \* ---- RateLimitTracker fields
    requestsRemaining, requestsLimit, resetTimestamp,
    complexityRemaining, complexityLimit, requestHistory,
    \* ---- the clock read by Date.now()
    now,
    \* ---- RequestQueue fields
    queue, processing, batchTimer, lastProcessTime,
    \* ---- the QueuedRequest objects, by id in order of enqueue: priority
    \*      and retryCount are fields of the object; status is where the
    \*      request is in its life, outcome what its promise settled with;
    \*      executions and results record the executor's runs and what each
    \*      run ended with
    calls,
    \* ---- the running processQueue() invocation: its position and locals
    pc, maxBatchSize, processedCount, current,
    \* ---- history (not program state): the number of low-priority deferrals
    \*      of the running pass, counted up to 2
    deferredInPass,
    \* ---- IssueCache: the entries of its Map, in insertion order
    cache,
    \* ---- what the latest direct call of IssueCache.get() was given and
    \*      what it returned
    got,
    \* ---- the calls of LinearClientWrapper.issue(), in order of call: the
    \*      key, the request enqueued for it (0: none), where the call is
    \*      and what it returned
    reads,
    \* ---- the calls of LinearClientWrapper.updateIssue(), in order of call:
    \*      the key, the request enqueued for it, where the call is, and
    \*      (history) the value the cache held for the key when it was called
    writes,
    \* ---- the remote service: the version of the issue it holds
    remote,
    \* ---- per LinearClientWrapper instance: activityBatch (session id ->
    \*      the batched items, by activity id) and batchTimers (session id
    \*      -> the handle of the flush timer, 0: none)
    activityBatch, batchTimers,
    \* ---- the run-time's pending timeouts set by batchAgentActivity(): the
    \*      handle, the instance and session of the callback, the delay and
    \*      the time of the setTimeout() call
    flushTimers,
    \* ---- the calls of createAgentActivity(), in order of call: client,
    \*      session, content type, where the call's promise is and what it
    \*      settled with, and the request that carried it (0: none yet)
    activities,
    \* ---- the running processBatchedActivities() invocations: their locals
    \*      and the request each one awaits
    flushes

trackerVars == <<requestsRemaining, requestsLimit, resetTimestamp,
                 complexityRemaining, complexityLimit, requestHistory>>
queueVars == <<queue, processing, batchTimer, lastProcessTime, calls,
               pc, maxBatchSize, processedCount, current, deferredInPass>>
cacheVars == <<cache, got>>
batchVars == <<activityBatch, batchTimers, flushTimers, activities, flushes>>
clientVars == <<reads, writes, remote, activityBatch, batchTimers,
                flushTimers, activities, flushes>>
vars == <<requestsRemaining, requestsLimit, resetTimestamp,
          complexityRemaining, complexityLimit, requestHistory, now,
          queue, processing, batchTimer, lastProcessTime, calls,
          pc, maxBatchSize, processedCount, current, deferredInPass,
          cache, got, reads, writes, remote, activityBatch, batchTimers,
          flushTimers, activities, flushes>>

-----------------------------------------------------------------------------
(* Bounds of the model *)

\* number of enqueue() calls in a behaviour
MaxRequests == 2
\* number of entries the request history may hold before the tracker's
\* recording operations stop being called, while the queue runs
MaxHistory == 1
\* the same, for the tracker taken alone
MaxTrackerHistory == 2
\* number of clock ticks
MaxTicks == 2
\* number of executor runs in a behaviour that fail with a rate limit error
MaxRateLimitErrors == 4
\* number of executor runs that fail with a rate limit error while the queue
\* runs with mode changes and clear()
MaxQueueRateLimitErrors == 1
\* number of updateFromHeaders() calls when only header updates are made
MaxUpdates == 2
\* the access count up to which an entry of the cache is read
MaxAccess == 7
\* number of clock ticks of the cache taken alone
MaxCacheTicks == 7
\* number of issues the cache is warmed with before it is filled
WarmSize == 98
\* number of keys added to the warmed cache
MaxNewKeys == 4
\* the access count up to which an entry of the warmed cache is read
MaxEvictAccess == 1
\* number of clock ticks while the warmed cache is filled
MaxEvictTicks == 2
\* number of issue() calls of the client
MaxReads == 3
\* number of clock ticks while the client runs
MaxClientTicks == 2
\* number of fetches of the client that fail with a rate limit error
MaxClientRateLimitErrors == 1

\* number of updateIssue() calls in a behaviour of the client
MaxWrites == 1
\* number of issue() calls in a behaviour of the client that also writes
MaxWriteReads == 3
\* number of rate limit errors while the client reads and writes
MaxWriteRateLimitErrors == 1

\* number of issue() calls, of rate limit errors and of clock ticks while the
\* tracker is told of the requests' outcomes
MaxTrackedReads == 2
MaxTrackedRateLimitErrors == 1
MaxTrackedTicks == 1

\* number of enqueue() calls, and of header updates, while passes are counted
MaxBatchRequests == 6
MaxBatchModeUpdates == 1

\* number of updateIssue() calls, of rate limit errors and of clock steps
\* while the clock runs past the reset time
MaxBackpressureWrites == 2
MaxBackpressureRateLimitErrors == 1
MaxBackpressureTicks == 7

\* number of createAgentActivity() calls in a behaviour
MaxActivities == 2
\* number of createAgentActivity() calls, of clock steps and of tracked events
\* while the flush timers run on the clock
MaxFlushActivities == 2
MaxFlushTicks == 3
MaxFlushModeUpdates == 1
\* number of tracked events up to which the remote's headers change the mode
MaxModeUpdates == 2

-----------------------------------------------------------------------------
(* Program constants *)

MAX_RETRIES == 3
EMERGENCY_THRESHOLD == 100
CONSERVATIVE_THRESHOLD == 300
CRITICAL_OPERATION_RESERVE == 50
HISTORY_WINDOW_MS == 60000
DEFAULT_REQUESTS == 1200
DEFAULT_COMPLEXITY == 50000
DEFAULT_RESET_MS == 3600000
NORMAL_BATCH_SIZE == 5
CONSERVATIVE_BATCH_SIZE == 2
EMERGENCY_BATCH_SIZE == 1
NORMAL_WINDOW_MS == 500
CONSERVATIVE_WINDOW_MS == 2000
EMERGENCY_WINDOW_MS == 5000
\* one clock tick, in milliseconds
TICK_MS == 30000

-----------------------------------------------------------------------------
(* JavaScript numbers: the integers and NaN.  Every comparison with NaN is  *)
(* false and arithmetic on NaN gives NaN.                                   *)

NaN == -999999999

JsGt(a, b) == a # NaN /\ b # NaN /\ a > b
JsLe(a, b) == a # NaN /\ b # NaN /\ a <= b
JsLt(a, b) == a # NaN /\ b # NaN /\ a < b
JsSub(a, b) == IF a = NaN \/ b = NaN THEN NaN ELSE a - b
JsMul(a, b) == IF a = NaN \/ b = NaN THEN NaN ELSE a * b
\* Math.max(a, b)
MathMax(a, b) == IF a = NaN \/ b = NaN THEN NaN ELSE IF a >= b THEN a ELSE b

-----------------------------------------------------------------------------
(* parseInt(s, 10) on a string given as the tuple of its characters:        *)
(* leading blanks are skipped, one sign is accepted, then the longest run   *)
(* of decimal digits is read; no digit at all gives NaN.                    *)

Digits == <<"0", "1", "2", "3", "4", "5", "6", "7", "8", "9">>
IsDigit(c) == \E d \in 1..10 : Digits[d] = c
DigitValue(c) == (CHOOSE d \in 1..10 : Digits[d] = c) - 1

RECURSIVE SkipBlanks(_)
SkipBlanks(s) ==
    IF s # <<>> /\ Head(s) = " " THEN SkipBlanks(Tail(s)) ELSE s

RECURSIVE ReadDigits(_, _)
ReadDigits(s, acc) ==
    IF s # <<>> /\ IsDigit(Head(s))
    THEN ReadDigits(Tail(s), acc * 10 + DigitValue(Head(s)))
    ELSE acc

parseInt(str) ==
    LET t == SkipBlanks(str)
        neg == t # <<>> /\ Head(t) = "-"
        u == IF t # <<>> /\ Head(t) \in {"-", "+"} THEN Tail(t) ELSE t
    IN  IF u = <<>> \/ ~IsDigit(Head(u)) THEN NaN
        ELSE IF neg THEN 0 - ReadDigits(u, 0) ELSE ReadDigits(u, 0)

-----------------------------------------------------------------------------
(* Response headers: each key is absent, a string, or an array of strings. *)

Absent == [kind |-> "absent"]
Str(s) == [kind |-> "string", s |-> s]
Arr(a) == [kind |-> "array", a |-> a]

\* the `undefined` of getHeaderValue
Undefined == <<"undefined">>

getHeaderValue(headers, key) ==
    LET value == headers[key]
    IN  CASE value.kind = "absent" -> Undefined
          [] value.kind = "array" ->
                IF value.a = <<>> THEN Undefined ELSE value.a[1]
          [] OTHER -> value.s

HeaderKeys == {"requests-remaining", "requests-limit", "requests-reset",
               "complexity-remaining", "complexity-limit"}

NoHeaders == [k \in HeaderKeys |-> Absent]

With(h, key, value) == [h EXCEPT ![key] = value]

-----------------------------------------------------------------------------
(* RateLimitTracker *)

\* trackRequest(): push Date.now(), then keep the entries inside the window
RECURSIVE FilterNewer(_, _)
FilterNewer(history, cutoff) ==
    IF history = <<>> THEN <<>>
    ELSE IF Head(history) > cutoff
         THEN <<Head(history)>> \o FilterNewer(Tail(history), cutoff)
         ELSE FilterNewer(Tail(history), cutoff)

trackRequest(history) ==
    FilterNewer(Append(history, now), now - HISTORY_WINDOW_MS)

\* a rate in requests per second, as a fraction
ZeroRate == [num |-> 0, den |-> 1]

\* getCurrentRequestRate(): the number of entries inside the window over the
\* seconds since the first of them, at least one second;
\* length / max((now - first) / 1000, 1) is (length * 1000) / max(now - first, 1000)
getCurrentRequestRate ==
    IF Len(requestHistory) < 2 THEN ZeroRate
    ELSE LET recentRequests ==
                 FilterNewer(requestHistory, now - HISTORY_WINDOW_MS)
         IN  IF Len(recentRequests) = 0 THEN ZeroRate
             ELSE IF recentRequests[1] = 0 THEN ZeroRate
             ELSE [num |-> Len(recentRequests) * 1000,
                   den |-> MathMax(now - recentRequests[1], 1000)]

\* variant: a field whose header is missing is cleared to zero
FieldFromHeaderClearing(headers, key, old) ==
    IF getHeaderValue(headers, key) # Undefined
    THEN parseInt(getHeaderValue(headers, key))
    ELSE 0

\* the value a field takes from its header: parsed when the header is there
FieldFromHeader(headers, key, old) ==
    IF getHeaderValue(headers, key) # Undefined
    THEN parseInt(getHeaderValue(headers, key))
    ELSE old

ResetFromHeader(headers, old) ==
    IF getHeaderValue(headers, "requests-reset") # Undefined
    THEN JsMul(parseInt(getHeaderValue(headers, "requests-reset")), 1000)
    ELSE old

updateFromHeaders(headers) ==
    /\ requestsRemaining' =
           FieldFromHeader(headers, "requests-remaining", requestsRemaining)
    /\ requestsLimit' =
           FieldFromHeader(headers, "requests-limit", requestsLimit)
    /\ resetTimestamp' = ResetFromHeader(headers, resetTimestamp)
    /\ complexityRemaining' =
           FieldFromHeader(headers, "complexity-remaining", complexityRemaining)
    /\ complexityLimit' =
           FieldFromHeader(headers, "complexity-limit", complexityLimit)
    /\ requestHistory' = trackRequest(requestHistory)

consumeRequest ==
    /\ requestsRemaining' = MathMax(0, JsSub(requestsRemaining, 1))
    /\ requestHistory' = trackRequest(requestHistory)
    /\ UNCHANGED <<requestsLimit, resetTimestamp, complexityRemaining,
                   complexityLimit>>

\* variant: the emergency branch admits what the conservative branch admits
shouldAllowRequestLaxEmergency(priority) ==
    IF JsGt(requestsRemaining, CONSERVATIVE_THRESHOLD) THEN TRUE
    ELSE priority # "low"

shouldAllowRequest(priority) ==
    IF JsGt(requestsRemaining, CONSERVATIVE_THRESHOLD) THEN TRUE
    ELSE IF JsLe(requestsRemaining, EMERGENCY_THRESHOLD)
         THEN priority = "critical"
    ELSE IF JsLe(requestsRemaining, CONSERVATIVE_THRESHOLD)
         THEN priority # "low"
    ELSE TRUE

getRecommendedBatchWindow ==
    IF JsGt(requestsRemaining, CONSERVATIVE_THRESHOLD) THEN NORMAL_WINDOW_MS
    ELSE IF JsGt(requestsRemaining, EMERGENCY_THRESHOLD)
         THEN CONSERVATIVE_WINDOW_MS
    ELSE EMERGENCY_WINDOW_MS

getOperationMode ==
    IF JsGt(requestsRemaining, CONSERVATIVE_THRESHOLD) THEN "normal"
    ELSE IF JsGt(requestsRemaining, EMERGENCY_THRESHOLD) THEN "conservative"
    ELSE "emergency"

-----------------------------------------------------------------------------
(* RequestQueue *)

Priorities == {"critical", "normal", "low"}

priorityOrder(p) ==
    CASE p = "critical" -> 0 [] p = "normal" -> 1 [] p = "low" -> 2

\* what an executor's promise settles with: a value, or an error (message)
Success == "success"
RateLimitError == "rate limit exceeded"
RegularError == "Regular error"
QueueCleared == "Queue cleared"
ExecutorResults == {Success, RateLimitError, RegularError}

\* error.message?.includes('rate limit')
includesRateLimit(message) == message \in {RateLimitError}

InsertAt(q, i, x) == SubSeq(q, 1, i - 1) \o <<x>> \o SubSeq(q, i, Len(q))

\* variant: the batch size of normal mode in every mode
batchSizeAlwaysNormal(mode) == NORMAL_BATCH_SIZE

\* variant: no search for the insertion point, the request goes to the end
insertIndexAtEnd(q, priority) == Len(q) + 1

\* variant: the request goes to the front
insertIndexAtFront(q, priority) == 1

\* variant: the search stops at the first request of the same or lower priority
insertIndexBeforeEqual(q, priority) ==
    LET later == {i \in 1..Len(q) :
                     priorityOrder(calls[q[i]].priority) >= priorityOrder(priority)}
    IN  IF later = {} THEN Len(q) + 1
        ELSE CHOOSE i \in later : \A j \in later : i <= j

\* index of the first queued request of strictly lower priority, else the end
insertIndex(q, priority) ==
    LET later == {i \in 1..Len(q) :
                     priorityOrder(calls[q[i]].priority) > priorityOrder(priority)}
    IN  IF later = {} THEN Len(q) + 1
        ELSE CHOOSE i \in later : \A j \in later : i <= j

insertByPriority(q, id, priority) == InsertAt(q, insertIndex(q, priority), id)

\* scheduleProcessing(): arm the batch timer unless it is armed already.  The
\* delay (batch window less the time since the last pass) is not kept: a
\* pending timer may fire at any later moment.
scheduleProcessing(timer) == TRUE

batchSizeFor(mode) ==
    CASE mode = "normal" -> NORMAL_BATCH_SIZE
      [] mode = "conservative" -> CONSERVATIVE_BATCH_SIZE
      [] OTHER -> EMERGENCY_BATCH_SIZE

\* no caller's continuation is waiting to run: a continuation is a microtask
\* and runs before any timer or I/O callback
NoContinuation == \A i \in 1..Len(flushes) : flushes[i].status # "resuming"

\* the event loop is free to run another handler
EventLoopFree == pc # "loop" /\ NoContinuation

\* enqueue(execute, priority)
Enqueue(priority, maxRequests) ==
    /\ EventLoopFree
    /\ Len(calls) < maxRequests
    /\ calls' = Append(calls, [priority |-> priority, retryCount |-> 0,
                               status |-> "queued", outcome |-> "pending",
                               executions |-> 0, results |-> <<>>])
    /\ queue' = insertByPriority(queue, Len(calls) + 1, priority)
    /\ batchTimer' = scheduleProcessing(batchTimer)
    /\ UNCHANGED <<trackerVars, cacheVars, clientVars, now, processing, lastProcessTime, pc,
                   maxBatchSize, processedCount, current, deferredInPass>>

\* variant: processQueue() starts a pass while one is running
BatchTimerFiresReentrant ==
    /\ EventLoopFree
    /\ batchTimer
    /\ batchTimer' = FALSE
    /\ IF queue = <<>>
       THEN UNCHANGED <<processing, lastProcessTime, pc, maxBatchSize,
                        processedCount, deferredInPass>>
       ELSE /\ processing' = TRUE
            /\ lastProcessTime' = now
            /\ maxBatchSize' = batchSizeFor(getOperationMode)
            /\ processedCount' = 0
            /\ deferredInPass' = 0
            /\ pc' = "loop"
    /\ UNCHANGED <<trackerVars, cacheVars, clientVars, now, queue, calls, current>>

\* the batch timer's callback: clear the handle and enter processQueue(),
\* which returns at once when a pass is running or nothing is queued
BatchTimerFires ==
    /\ EventLoopFree
    /\ batchTimer
    /\ batchTimer' = FALSE
    /\ IF processing \/ queue = <<>>
       THEN UNCHANGED <<processing, lastProcessTime, pc, maxBatchSize,
                        processedCount, deferredInPass>>
       ELSE /\ processing' = TRUE
            /\ lastProcessTime' = now
            /\ maxBatchSize' = batchSizeFor(getOperationMode)
            /\ processedCount' = 0
            /\ deferredInPass' = 0
            /\ pc' = "loop"
    /\ UNCHANGED <<trackerVars, cacheVars, clientVars, now, queue, calls, current>>

\* variant: the pass ends without scheduling the next one
FinishPassUnscheduled(q) ==
    /\ batchTimer' = batchTimer
    /\ processing' = FALSE
    /\ pc' = "idle"
    /\ maxBatchSize' = 0
    /\ processedCount' = 0
    /\ deferredInPass' = 0

\* leaving the loop: schedule the next pass if requests remain, then the
\* finally block
FinishPass(q) ==
    /\ batchTimer' = IF q # <<>> THEN scheduleProcessing(batchTimer)
                     ELSE batchTimer
    /\ processing' = FALSE
    /\ pc' = "idle"
    /\ maxBatchSize' = 0
    /\ processedCount' = 0
    /\ deferredInPass' = 0

\* the head is not admitted and is of low priority: move it to the end and
\* go on with the loop
DeferLowHead ==
    /\ queue' = Append(Tail(queue), Head(queue))
    /\ deferredInPass' = IF deferredInPass < 2 THEN deferredInPass + 1 ELSE 2
    /\ UNCHANGED <<batchTimer, processing, pc, calls, current, maxBatchSize,
                   processedCount>>

\* variant: a blocked head of higher priority is moved to the end as well
BlockedHeadDeferred == DeferLowHead

\* the head is not admitted and is of higher priority: leave the loop
BlockedHead ==
    /\ FinishPass(queue)
    /\ UNCHANGED <<queue, calls, current>>

\* the head is admitted: take it off the queue and call executeRequest(),
\* which runs the executor up to its await
StartHead ==
    LET id == Head(queue) IN
    /\ queue' = Tail(queue)
    /\ calls' = [calls EXCEPT ![id].status = "executing",
                              ![id].executions = @ + 1]
    /\ current' = id
    /\ pc' = "await"
    /\ UNCHANGED <<batchTimer, processing, deferredInPass, maxBatchSize,
                   processedCount>>

\* one evaluation of the while condition of processQueue() and of its body
LoopStep ==
    /\ pc = "loop"
    /\ IF queue # <<>> /\ processedCount < maxBatchSize
       THEN IF ~shouldAllowRequest(calls[Head(queue)].priority)
            THEN IF calls[Head(queue)].priority = "low"
                 THEN DeferLowHead
                 ELSE BlockedHead
            ELSE StartHead
       ELSE /\ FinishPass(queue)
            /\ UNCHANGED <<queue, calls, current>>
    /\ UNCHANGED <<trackerVars, cacheVars, clientVars, now, lastProcessTime>>

\* variant: the retry branch does not count the retry
afterExecuteUncounted(request, result) ==
    IF result = Success
    THEN [request EXCEPT !.status = "settled", !.outcome = Success,
                         !.results = Append(@, result)]
    ELSE IF includesRateLimit(result) /\ request.retryCount < MAX_RETRIES
         THEN [request EXCEPT !.status = "retryWait",
                              !.results = Append(@, result)]
         ELSE [request EXCEPT !.status = "settled", !.outcome = result,
                              !.results = Append(@, result)]

\* variant: every error is retried while the budget lasts
afterExecuteRetryAnyError(request, result) ==
    IF result = Success
    THEN [request EXCEPT !.status = "settled", !.outcome = Success,
                         !.results = Append(@, result)]
    ELSE IF request.retryCount < MAX_RETRIES
         THEN [request EXCEPT !.status = "retryWait",
                              !.retryCount = @ + 1,
                              !.results = Append(@, result)]
         ELSE [request EXCEPT !.status = "settled", !.outcome = result,
                              !.results = Append(@, result)]

\* variant: the budget test is off by one
afterExecuteOneMoreRetry(request, result) ==
    IF result = Success
    THEN [request EXCEPT !.status = "settled", !.outcome = Success,
                         !.results = Append(@, result)]
    ELSE IF includesRateLimit(result) /\ request.retryCount <= MAX_RETRIES
         THEN [request EXCEPT !.status = "retryWait",
                              !.retryCount = @ + 1,
                              !.results = Append(@, result)]
         ELSE [request EXCEPT !.status = "settled", !.outcome = result,
                              !.results = Append(@, result)]

\* the record of a request once its executor has settled with `result`
afterExecute(request, result) ==
    IF result = Success
    THEN [request EXCEPT !.status = "settled", !.outcome = Success,
                         !.results = Append(@, result)]
    ELSE IF includesRateLimit(result) /\ request.retryCount < MAX_RETRIES
         THEN [request EXCEPT !.status = "retryWait",
                              !.retryCount = @ + 1,
                              !.results = Append(@, result)]
         ELSE [request EXCEPT !.status = "settled", !.outcome = result,
                              !.results = Append(@, result)]

\* executor runs that have failed with a rate limit error so far
RateLimitRuns(request) ==
    Cardinality({i \in 1..Len(request.results) :
                    includesRateLimit(request.results[i])})

RECURSIVE rateLimitErrors(_)
rateLimitErrors(cs) ==
    IF cs = <<>> THEN 0
    ELSE RateLimitRuns(Head(cs)) + rateLimitErrors(Tail(cs))

\* the executor awaited by executeRequest() settles; the pass counts the
\* request and goes back to the loop
ExecutorSettles(result, maxErrors) ==
    /\ pc = "await"
    /\ includesRateLimit(result) => rateLimitErrors(calls) < maxErrors
    /\ calls' = [calls EXCEPT ![current] = afterExecute(calls[current], result)]
    /\ processedCount' = processedCount + 1
    /\ current' = 0
    /\ pc' = "loop"
    /\ UNCHANGED <<trackerVars, cacheVars, clientVars, now, queue, processing, batchTimer,
                   lastProcessTime, maxBatchSize, deferredInPass>>

\* the retry timer of executeRequest() fires: re-insert and schedule
RetryTimerFires(id) ==
    /\ EventLoopFree
    /\ calls[id].status = "retryWait"
    /\ queue' = insertByPriority(queue, id, calls[id].priority)
    /\ calls' = [calls EXCEPT ![id].status = "queued"]
    /\ batchTimer' = scheduleProcessing(batchTimer)
    /\ UNCHANGED <<trackerVars, cacheVars, clientVars, now, processing, lastProcessTime, pc,
                   maxBatchSize, processedCount, current, deferredInPass>>

\* the requests clear() rejects: those in the queue
clearRejects(q) == {q[i] : i \in 1..Len(q)}

\* clear()
Clear ==
    /\ EventLoopFree
    /\ calls' = [id \in 1..Len(calls) |->
                    IF id \in clearRejects(queue)
                    THEN [calls[id] EXCEPT !.status = "settled",
                                           !.outcome = QueueCleared]
                    ELSE calls[id]]
    /\ queue' = <<>>
    /\ batchTimer' = FALSE
    /\ UNCHANGED <<trackerVars, cacheVars, clientVars, now, processing, lastProcessTime, pc,
                   maxBatchSize, processedCount, current, deferredInPass>>

-----------------------------------------------------------------------------
(* IssueCache.  The Map is the sequence of its entries in insertion order;  *)
(* an entry is the CachedIssue with its key.                                *)

DEFAULT_TTL == 600000
EXTENDED_TTL == 1800000
STALE_TTL == 3600000
MAX_CACHE_SIZE == 100
\* entries removed beyond the overage
EVICT_EXTRA == 10
\* set() extends the TTL above this access count
FREQUENT_ACCESS == 5

\* the `null` returned by get()
Null == "null"

\* the issues a remote fetch may return
Issues == {"v1", "v2"}

\* Map.get(key): the position of the entry, 0 when there is none
cacheIndex(c, key) ==
    IF \E i \in 1..Len(c) : c[i].key = key
    THEN CHOOSE i \in 1..Len(c) : c[i].key = key
    ELSE 0

\* Map.set(key, entry): an existing key keeps its position
mapSet(c, key, entry) ==
    IF cacheIndex(c, key) = 0 THEN Append(c, entry)
    ELSE [c EXCEPT ![cacheIndex(c, key)] = entry]

\* variant: with allowStale an entry of any age is returned
getNoStaleLimit(c, key, allowStale) ==
    LET i == cacheIndex(c, key) IN
    IF i = 0 THEN [returns |-> Null, cache |-> c]
    ELSE LET age == now - c[i].timestamp
             tracked == [c EXCEPT ![i].accessCount = @ + 1,
                                  ![i].lastAccessed = now]
         IN  IF age <= c[i].ttl \/ allowStale
             THEN [returns |-> c[i].issue, cache |-> tracked]
             ELSE [returns |-> Null, cache |-> tracked]

\* get(issueId, allowStale): what it returns and the Map it leaves
get(c, key, allowStale) ==
    LET i == cacheIndex(c, key) IN
    IF i = 0 THEN [returns |-> Null, cache |-> c]
    ELSE LET age == now - c[i].timestamp
             tracked == [c EXCEPT ![i].accessCount = @ + 1,
                                  ![i].lastAccessed = now]
         IN  IF age <= c[i].ttl
             THEN [returns |-> c[i].issue, cache |-> tracked]
             ELSE IF allowStale /\ age <= STALE_TTL
                  THEN [returns |-> c[i].issue, cache |-> tracked]
                  ELSE [returns |-> Null, cache |-> tracked]

\* variant: the TTL is extended from the threshold on
ttlForAtThreshold(c, key) ==
    IF cacheIndex(c, key) # 0
       /\ c[cacheIndex(c, key)].accessCount >= FREQUENT_ACCESS
    THEN EXTENDED_TTL
    ELSE DEFAULT_TTL

\* set(): the TTL chosen from the access count of the existing entry
ttlFor(c, key) ==
    IF cacheIndex(c, key) # 0
       /\ c[cacheIndex(c, key)].accessCount > FREQUENT_ACCESS
    THEN EXTENDED_TTL
    ELSE DEFAULT_TTL

\* variant: the entries are taken in insertion order
sortPositionByInsertion(c, i) == i - 1

\* the position (from 0) of entry i in the entries sorted by lastAccessed;
\* the sort is stable
sortPosition(c, i) ==
    Cardinality({j \in 1..Len(c) :
                    \/ c[j].lastAccessed < c[i].lastAccessed
                    \/ c[j].lastAccessed = c[i].lastAccessed /\ j < i})

\* variant: only the overage is removed
toRemoveOverage(size) == size - MAX_CACHE_SIZE

toRemove(size) == size - MAX_CACHE_SIZE + EVICT_EXTRA

evictIfNeeded(c) ==
    IF Len(c) <= MAX_CACHE_SIZE THEN c
    ELSE LET Kept(entry) ==
                 sortPosition(c, cacheIndex(c, entry.key)) >= toRemove(Len(c))
         IN  SelectSeq(c, Kept)

\* set(issueId, issue)
set(c, key, issue) ==
    evictIfNeeded(
        mapSet(c, key,
               [key |-> key, issue |-> issue, timestamp |-> now,
                ttl |-> ttlFor(c, key),
                accessCount |-> IF cacheIndex(c, key) = 0 THEN 0
                                ELSE c[cacheIndex(c, key)].accessCount,
                lastAccessed |-> now]))

\* invalidate(issueId)
invalidate(c, key) ==
    LET Other(entry) == entry.key # key IN SelectSeq(c, Other)

\* warm(issues): set() for each issue that has an id, in turn; c is the Map
\* as the loop has left it so far
RECURSIVE warm(_, _)
warm(c, issues) ==
    IF Len(c) >= 0 /\ issues = <<>> THEN c
    ELSE IF Head(issues).id # 0
         THEN warm(set(c, Head(issues).id, Head(issues).issue), Tail(issues))
         ELSE warm(c, Tail(issues))

-----------------------------------------------------------------------------
(* The tracker's callers *)

\* header mappings seen while the queue runs: the three operating modes
ModeHeaders ==
    { With(NoHeaders, "requests-remaining", Str(s)) :
        s \in { <<"5", "0">>, <<"2", "5", "0">>, <<"5", "0", "0">> } }

\* header mappings given to the tracker taken alone: per key, the header is
\* absent, a string (well formed or not) or an array
RemainingValues ==
    { Absent, Str(<<"8", "0", "0">>), Str(<<"3", "0", "1">>),
      Str(<<"3", "0", "0">>), Str(<<"1", "0", "1">>), Str(<<"1", "0", "0">>),
      Str(<<"1", "5", "0", "0">>), Str(<<"a", "b", "c">>),
      Arr(<< <<"5", "0", "0">> >>), Arr(<<>>) }
LimitValues == { Absent, Str(<<"1", "2", "0", "0">>), Str(<<"1", "0", "0", "0">>) }
ResetValues == { Absent, Str(<<"9", "0">>) }
ComplexityValues == { Absent, Str(<<"9", "9", "9">>) }

TrackerHeaders ==
    { [k \in HeaderKeys |->
          CASE k = "requests-remaining" -> remaining
            [] k = "requests-limit" -> limit
            [] k = "requests-reset" -> reset
            [] k = "complexity-remaining" -> cRemaining
            [] k = "complexity-limit" -> cLimit] :
        remaining \in RemainingValues, limit \in LimitValues,
        reset \in ResetValues, cRemaining \in ComplexityValues,
        cLimit \in ComplexityValues }

UpdateFromHeaders(headers, budget) ==
    /\ EventLoopFree
    /\ Len(requestHistory) < budget
    /\ updateFromHeaders(headers)
    /\ UNCHANGED <<now, queueVars, cacheVars, clientVars>>

ConsumeRequest(budget) ==
    /\ EventLoopFree
    /\ Len(requestHistory) < budget
    /\ consumeRequest
    /\ UNCHANGED <<now, queueVars, cacheVars, clientVars>>

\* the clock advances
Tick ==
    /\ EventLoopFree
    /\ now < MaxTicks * TICK_MS
    /\ now' = now + TICK_MS
    /\ UNCHANGED <<trackerVars, queueVars, cacheVars, clientVars>>

-----------------------------------------------------------------------------
(* The cache's callers *)

\* no get() yet
NoGet == [key |-> 0, allowStale |-> FALSE, returns |-> Null]

\* one clock tick of the cache, in milliseconds
CACHE_TICK_MS == DEFAULT_TTL

\* the key read and written when the cache is taken alone
CacheKeys == {123}

CacheGet(key, allowStale, maxAccess) ==
    /\ EventLoopFree
    /\ cacheIndex(cache, key) # 0
          => cache[cacheIndex(cache, key)].accessCount < maxAccess
    /\ cache' = get(cache, key, allowStale).cache
    /\ got' = [key |-> key, allowStale |-> allowStale,
               returns |-> get(cache, key, allowStale).returns]
    /\ UNCHANGED <<trackerVars, queueVars, now, clientVars>>

CacheSet(key, issue) ==
    /\ EventLoopFree
    /\ cache' = set(cache, key, issue)
    /\ UNCHANGED <<trackerVars, queueVars, now, got, clientVars>>

CacheInvalidate(key) ==
    /\ EventLoopFree
    /\ cache' = invalidate(cache, key)
    /\ UNCHANGED <<trackerVars, queueVars, now, got, clientVars>>

\* the issues given to warm(): n issues with ids 1..n
WarmIssues(n) == [i \in 1..n |-> [id |-> i, issue |-> "v1"]]

\* warm(issues) on the new cache
CacheWarm(n) ==
    /\ EventLoopFree
    /\ cache = <<>>
    /\ cache' = warm(cache, WarmIssues(n))
    /\ UNCHANGED <<trackerVars, queueVars, now, got, clientVars>>

\* the clock advances
CacheTick(maxTicks) ==
    /\ EventLoopFree
    /\ now < maxTicks * CACHE_TICK_MS
    /\ now' = now + CACHE_TICK_MS
    /\ UNCHANGED <<trackerVars, queueVars, cacheVars, clientVars>>

\* a key that the cache has not held: one above the largest key it holds
newKey(c) ==
    1 + (CHOOSE k \in {c[i].key : i \in 1..Len(c)} :
            \A i \in 1..Len(c) : c[i].key <= k)

-----------------------------------------------------------------------------
(* LinearClientWrapper: issue(), with the shared tracker, queue and cache   *)

\* String(n) for a natural number, as the tuple of its characters
RECURSIVE toString(_)
toString(n) ==
    IF n < 10 THEN <<Digits[n + 1]>>
    ELSE toString(n \div 10) \o <<Digits[(n % 10) + 1]>>

\* determinePriority(methodName, args): the priority, and the cache as the
\* get() of the 'issue' branch leaves it.  arg is args[0]: the issue id of
\* issue() (0: none), the content type of createAgentActivity()
determinePriority(c, methodName, arg) ==
    LET looked == methodName = "issue" /\ arg # 0
        after == IF looked THEN get(c, arg, FALSE).cache ELSE c
    IN  IF looked /\ get(c, arg, FALSE).returns = Null
        THEN [priority |-> "critical", cache |-> after]
        ELSE IF methodName = "createAgentActivity"
             THEN IF arg \in {"response", "error"}
                  THEN [priority |-> "normal", cache |-> after]
                  ELSE [priority |-> "low", cache |-> after]
             ELSE [priority |-> "normal", cache |-> after]

\* variant: the cache is not consulted, every read is fetched
issueAlwaysFetches(c, key) ==
    LET first == determinePriority(c, "issue", key)
        denied == first.priority # "critical"
                  /\ ~shouldAllowRequest(first.priority)
        stale == get(first.cache, key, TRUE)
    IN  IF denied /\ stale.returns # Null
        THEN [fetch |-> FALSE, status |-> "stale", returns |-> stale.returns,
              priority |-> "none", cache |-> stale.cache]
        ELSE LET second ==
                     determinePriority(IF denied THEN stale.cache
                                       ELSE first.cache, "issue", key)
             IN  [fetch |-> TRUE, status |-> "fetching", returns |-> Null,
                  priority |-> second.priority, cache |-> second.cache]

\* issue(issueId) up to its await: whether a fetch is enqueued and with which
\* priority (determined again in executeWithTracking), what is returned when
\* none is, and the cache as the calls of get() leave it
issue(c, key) ==
    LET cached == get(c, key, FALSE) IN
    IF cached.returns # Null
    THEN [fetch |-> FALSE, status |-> "cached", returns |-> cached.returns,
          priority |-> "none", cache |-> cached.cache]
    ELSE LET first == determinePriority(cached.cache, "issue", key)
             denied == first.priority # "critical"
                       /\ ~shouldAllowRequest(first.priority)
             stale == get(first.cache, key, TRUE)
         IN  IF denied /\ stale.returns # Null
             THEN [fetch |-> FALSE, status |-> "stale",
                   returns |-> stale.returns,
                   priority |-> "none", cache |-> stale.cache]
             ELSE LET second ==
                          determinePriority(IF denied THEN stale.cache
                                            ELSE first.cache, "issue", key)
                  IN  [fetch |-> TRUE, status |-> "fetching",
                       returns |-> Null,
                       priority |-> second.priority, cache |-> second.cache]

\* an error that carries the status 429 and not the words 'rate limit'
Http429Error == "HTTP 429"
ClientResults == ExecutorResults \cup {Http429Error}

\* error.message?.includes('rate limit') || error.message?.includes('429')
\* || error.status === 429
isRateLimitError(message) == message \in {RateLimitError, Http429Error}

\* the reset header an error may carry: none (undefined or ''), or a number
\* of seconds
NoResetHeader == <<>>
ResetHeaders == {NoResetHeader, <<"7", "2", "0", "0">>}

\* the headers executeWithTracking() gives the tracker on a rate limit error
\* whose reset header is resetHeader
RateLimitedHeaders(resetHeader) ==
    With(With(NoHeaders, "requests-remaining", Str(<<"0">>)),
         "requests-reset",
         Str(IF resetHeader # NoResetHeader THEN resetHeader
             ELSE toString((now + DEFAULT_RESET_MS) \div 1000)))

\* variant: a request is consumed whatever the remote call ended with
executorAlwaysConsumes(result, resetHeader) ==
    consumeRequest

\* the executor that executeWithTracking() enqueues, once its remote call has
\* ended with `result`: what it tells the tracker
executor(result, resetHeader) ==
    IF result = Success THEN consumeRequest
    ELSE IF isRateLimitError(result)
         THEN updateFromHeaders(RateLimitedHeaders(resetHeader))
         ELSE UNCHANGED trackerVars

\* the remote call awaited by the executor of `owner` settles: the executor
\* tells the tracker, the queue settles or retries the request and the pass
\* goes back to its loop
RequestSettles(result, resetHeader, maxErrors) ==
    /\ pc = "await"
    /\ includesRateLimit(result) => rateLimitErrors(calls) < maxErrors
    /\ executor(result, resetHeader)
    /\ calls' = [calls EXCEPT ![current] = afterExecute(calls[current], result)]
    /\ processedCount' = processedCount + 1
    /\ current' = 0
    /\ pc' = "loop"
    /\ UNCHANGED <<now, got, queue, processing, batchTimer, lastProcessTime,
                   maxBatchSize, deferredInPass>>

\* executeWithTracking(operation, methodName, args) up to its await: the
\* request is enqueued with the priority determinePriority() gives
Enqueued(priority) ==
    /\ calls' = Append(calls,
                   [priority |-> priority, retryCount |-> 0,
                    status |-> "queued", outcome |-> "pending",
                    executions |-> 0, results |-> <<>>])
    /\ queue' = insertByPriority(queue, Len(calls) + 1, priority)
    /\ batchTimer' = scheduleProcessing(batchTimer)

\* the key read by the client
ClientKeys == {123}

\* the issue the remote holds after `version` mutations
Versions == <<"v1", "v2", "v3", "v4">>
issueAt(version) == Versions[version + 1]

\* a call of issue(key), up to its return or its await
IssueRead(key, maxReads) ==
    /\ EventLoopFree
    /\ Len(reads) < maxReads
    /\ LET r == issue(cache, key)
           id == Len(calls) + 1
       IN  /\ cache' = r.cache
           /\ IF r.fetch
              THEN Enqueued(r.priority)
              ELSE UNCHANGED <<calls, queue, batchTimer>>
           /\ reads' = Append(reads,
                          [key |-> key, call |-> IF r.fetch THEN id ELSE 0,
                           status |-> r.status, returned |-> r.returns])
    /\ UNCHANGED <<trackerVars, now, got, processing, lastProcessTime, pc,
                   maxBatchSize, processedCount, current, deferredInPass,
                   writes, remote, batchVars>>

\* variant: the error is rethrown without a look at the cache
issueCatchRethrows(c, key, error) ==
    [status |-> "failed", returned |-> error, cache |-> c]

\* the catch block of issue(): the stale entry when there is one, the error
\* otherwise
issueCatch(c, key, error) ==
    LET stale == get(c, key, TRUE) IN
    IF stale.returns # Null
    THEN [status |-> "staleAfterError", returned |-> stale.returns,
          cache |-> stale.cache]
    ELSE [status |-> "failed", returned |-> error, cache |-> stale.cache]

\* the request of a read settles or is retried; issue() goes on once it is
\* settled
FetchSettles(result, resetHeader, fetched, maxErrors) ==
    /\ \E i \in 1..Len(reads) : reads[i].call = current
    /\ RequestSettles(result, resetHeader, maxErrors)
    /\ LET request == afterExecute(calls[current], result)
           read == CHOOSE i \in 1..Len(reads) : reads[i].call = current
           caught == issueCatch(cache, reads[read].key, request.outcome)
       IN  IF request.status # "settled"
           THEN UNCHANGED <<cache, reads>>
           ELSE IF request.outcome = Success
                THEN /\ cache' = set(cache, reads[read].key, fetched)
                     /\ reads' = [reads EXCEPT ![read].status = "fetched",
                                               ![read].returned = fetched]
                ELSE /\ cache' = caught.cache
                     /\ reads' = [reads EXCEPT
                                     ![read].status = caught.status,
                                     ![read].returned = caught.returned]
    /\ UNCHANGED <<writes, remote, batchVars>>

\* a call of updateIssue(key, input), up to its await
UpdateIssue(key, maxWrites) ==
    /\ EventLoopFree
    /\ Len(writes) < maxWrites
    /\ cache' = invalidate(cache, key)
    /\ Enqueued(determinePriority(invalidate(cache, key), "updateIssue",
                                  key).priority)
    /\ writes' = Append(writes,
                    [key |-> key, call |-> Len(calls) + 1,
                     status |-> "pending",
                     cachedBefore |->
                         IF cacheIndex(cache, key) = 0 THEN Null
                         ELSE cache[cacheIndex(cache, key)].issue])
    /\ UNCHANGED <<trackerVars, now, got, processing, lastProcessTime, pc,
                   maxBatchSize, processedCount, current, deferredInPass,
                   reads, remote, batchVars>>

\* the request of a write settles or is retried; the remote holds the next
\* version of the issue once the mutation has succeeded
UpdateSettles(result, resetHeader, maxErrors) ==
    /\ \E i \in 1..Len(writes) : writes[i].call = current
    /\ RequestSettles(result, resetHeader, maxErrors)
    /\ LET request == afterExecute(calls[current], result)
           write == CHOOSE i \in 1..Len(writes) : writes[i].call = current
       IN  IF request.status # "settled"
           THEN UNCHANGED <<writes, remote>>
           ELSE IF request.outcome = Success
                THEN /\ remote' = remote + 1
                     /\ writes' = [writes EXCEPT ![write].status = "done"]
                ELSE /\ writes' = [writes EXCEPT ![write].status = "failed"]
                     /\ UNCHANGED remote
    /\ UNCHANGED <<cache, reads, batchVars>>

-----------------------------------------------------------------------------
(* LinearClientWrapper: createAgentActivity(), batching and cleanup()       *)

\* the LinearClientWrapper instances and the agent sessions they emit for
Clients == {1, 2}
Sessions == {"s1"}

\* input.content.type of the activities emitted: a thought, and a response
\* ('error' is tested together with 'response' wherever the type is tested)
ActivityTypes == {"thought", "response"}

\* what a promise of createAgentActivity() has not settled with yet
Pending == [call |-> 0, outcome |-> "pending"]

\* shouldBatchActivity(input, operationMode)
shouldBatchActivity(type, operationMode) ==
    IF operationMode = "emergency" THEN TRUE
    ELSE IF operationMode = "conservative" /\ type = "thought" THEN TRUE
    ELSE IF type \in {"response", "error"} THEN FALSE
    ELSE IF type = "thought" THEN TRUE
    ELSE FALSE

\* items.filter: the members of a batch of the given kind, in batch order
thoughtsOf(items) ==
    LET IsThought(id) == activities[id].type = "thought"
    IN  SelectSeq(items, IsThought)
othersOf(items) ==
    LET IsOther(id) == activities[id].type # "thought"
    IN  SelectSeq(items, IsOther)

\* variant: the thoughts are numbered from the latest to the earliest
combinedBodyLatestFirst(thoughts) ==
    IF Len(thoughts) = 1 THEN <<<<thoughts[1]>>>>
    ELSE [i \in 1..Len(thoughts) |-> <<i, thoughts[Len(thoughts) + 1 - i]>>]

\* the body of the combined thought, as its lines: the one thought as it is,
\* or each thought after its number, `${i + 1}. ${t}`, joined by '\n'
combinedBody(thoughts) ==
    IF Len(thoughts) = 1 THEN <<<<thoughts[1]>>>>
    ELSE [i \in 1..Len(thoughts) |-> <<i, thoughts[i]>>]

\* the priority executeWithTracking gives the request of an activity
activityPriority(type) ==
    determinePriority(cache, "createAgentActivity", type).priority

\* variant: the existing timer is left pending
clearTimeoutLeft(timers, handles) == timers

\* clearTimeout(handle), for each of `handles`: the pending timeouts left
clearTimeout(timers, handles) == {t \in timers : t.handle \notin handles}

\* setTimeout(callback, delay) in batchAgentActivity(): the new timeout; its
\* handle is named after the activity that set it
setTimeout(client, session, handle, delay) ==
    [handle |-> handle, client |-> client, session |-> session,
     delay |-> delay, setAt |-> now]

\* createAgentActivity(input) of `client`, up to its return or its await:
\* batched (batchAgentActivity) or sent at once
CreateAgentActivity(client, session, type, maxActivities) ==
    /\ EventLoopFree
    /\ Len(activities) < maxActivities
    /\ LET id == Len(activities) + 1
           batchWindow == getRecommendedBatchWindow
           shouldBatch == shouldBatchActivity(type, getOperationMode)
       IN  /\ activities' = Append(activities,
                  [client |-> client, session |-> session, type |-> type,
                   batched |-> shouldBatch, at |-> now,
                   call |-> IF shouldBatch THEN 0 ELSE Len(calls) + 1,
                   status |-> "pending", result |-> Pending])
           /\ IF shouldBatch
              THEN /\ activityBatch' =
                         [activityBatch EXCEPT ![client][session] = Append(@, id)]
                   /\ flushTimers' =
                         clearTimeout(flushTimers,
                                      {batchTimers[client][session]})
                            \cup {setTimeout(client, session, id, batchWindow)}
                   /\ batchTimers' =
                         [batchTimers EXCEPT ![client][session] = id]
                   /\ UNCHANGED <<calls, queue, batchTimer>>
              ELSE /\ Enqueued(activityPriority(type))
                   /\ UNCHANGED <<activityBatch, batchTimers, flushTimers>>
    /\ UNCHANGED <<trackerVars, cacheVars, now, processing, lastProcessTime,
                   pc, maxBatchSize, processedCount, current, deferredInPass,
                   reads, writes, remote, flushes>>

\* the activities with the request that carries each of `sent` recorded
carriedBy(sent, id) ==
    [a \in 1..Len(activities) |->
        IF a \in sent THEN [activities[a] EXCEPT !.call = id]
        ELSE activities[a]]

\* the pending timeouts whose callback flushes `session` of `client`
timersOf(client, session) ==
    {t \in flushTimers : t.client = client /\ t.session = session}

\* the callback of the timeout `t` runs: processBatchedActivities(sessionId)
\* up to its first await, then batchTimers.delete(sessionId)
TimeoutFires(t) ==
    LET client == t.client
        session == t.session
    IN
    /\ EventLoopFree
    /\ flushTimers' = flushTimers \ {t}
    /\ batchTimers' = [batchTimers EXCEPT ![client][session] = 0]
    /\ LET items == activityBatch[client][session]
           thoughts == thoughtsOf(items)
           others == othersOf(items)
       IN  IF items = <<>>
           THEN UNCHANGED <<activityBatch, flushes, activities, calls, queue,
                            batchTimer>>
           ELSE /\ activityBatch' =
                      [activityBatch EXCEPT ![client][session] = <<>>]
                /\ flushes' = Append(flushes,
                       [client |-> client, session |-> session,
                        thoughts |-> thoughts, others |-> others,
                        body |-> IF thoughts # <<>>
                                 THEN combinedBody(thoughts) ELSE <<>>,
                        position |-> IF thoughts # <<>> THEN 0 ELSE 1,
                        call |-> Len(calls) + 1,
                        status |-> "awaiting", outcome |-> "pending"])
                /\ Enqueued(IF thoughts # <<>> THEN activityPriority("thought")
                            ELSE activityPriority(activities[others[1]].type))
                /\ activities' =
                       carriedBy(IF thoughts # <<>>
                                 THEN {thoughts[i] : i \in 1..Len(thoughts)}
                                 ELSE {others[1]}, Len(calls) + 1)
    /\ UNCHANGED <<trackerVars, cacheVars, now, processing, lastProcessTime,
                   pc, maxBatchSize, processedCount, current, deferredInPass,
                   reads, writes, remote>>

\* a timeout of a session fires, at any moment after it was set
FlushTimerFires(client, session) ==
    \E t \in timersOf(client, session) : TimeoutFires(t)

\* one step of the clock while activities are batched, in milliseconds
FLUSH_TICK_MS == 2500

\* a timeout of a session fires, once its delay has passed on the clock
FlushTimerDue(client, session) ==
    \E t \in timersOf(client, session) :
        now >= t.setAt + t.delay /\ TimeoutFires(t)

\* the clock advances while activities are batched
FlushTick(maxTicks) ==
    /\ EventLoopFree
    /\ now < maxTicks * FLUSH_TICK_MS
    /\ now' = now + FLUSH_TICK_MS
    /\ UNCHANGED <<trackerVars, queueVars, cacheVars, clientVars>>

\* the request of an activity settles or is retried: an activity sent at
\* once is settled by the request's outcome; a flush is resumed
ActivitySettles(result, resetHeader, maxErrors) ==
    /\ NoContinuation
    /\ \/ \E a \in 1..Len(activities) :
             ~activities[a].batched /\ activities[a].call = current
       \/ \E f \in 1..Len(flushes) : flushes[f].call = current
    /\ RequestSettles(result, resetHeader, maxErrors)
    /\ LET request == afterExecute(calls[current], result)
       IN  IF request.status # "settled"
           THEN UNCHANGED <<activities, flushes>>
           ELSE /\ activities' =
                      [a \in 1..Len(activities) |->
                          IF ~activities[a].batched /\ activities[a].call = current
                          THEN [activities[a] EXCEPT
                                   !.status = IF request.outcome = Success
                                              THEN "resolved" ELSE "rejected",
                                   !.result = [call |-> current,
                                               outcome |-> request.outcome]]
                          ELSE activities[a]]
                /\ flushes' =
                      [f \in 1..Len(flushes) |->
                          IF flushes[f].call = current
                          THEN [flushes[f] EXCEPT
                                   !.status = "resuming",
                                   !.outcome = request.outcome]
                          ELSE flushes[f]]
    /\ UNCHANGED <<cache, reads, writes, remote, activityBatch, batchTimers,
                   flushTimers>>

\* the callbacks the catch block of processBatchedActivities() rejects
rejectedByFailure(flush) ==
    {flush.thoughts[i] : i \in 1..Len(flush.thoughts)}
        \cup {flush.others[i] : i \in 1..Len(flush.others)}

\* the callbacks resolved after the request awaited at `position`
resolvedBySuccess(flush) ==
    IF flush.position = 0
    THEN {flush.thoughts[i] : i \in 1..Len(flush.thoughts)}
    ELSE {flush.others[flush.position]}

\* processBatchedActivities() goes on after an await: the callbacks of the
\* settled request are resolved and the next activity is sent, or the catch
\* block rejects every callback of the batch
FlushResumes(f) ==
    /\ pc # "loop"
    /\ flushes[f].status = "resuming"
    /\ LET flush == flushes[f]
           failed == flush.outcome # Success
           settles == IF failed THEN rejectedByFailure(flush)
                      ELSE resolvedBySuccess(flush)
           more == ~failed /\ flush.position < Len(flush.others)
           next == IF more THEN flush.others[flush.position + 1] ELSE 0
       IN  /\ activities' =
                  [a \in 1..Len(activities) |->
                      IF a \in settles /\ activities[a].status = "pending"
                      THEN [activities[a] EXCEPT
                               !.status = IF failed THEN "rejected"
                                          ELSE "resolved",
                               !.result = [call |-> flush.call,
                                           outcome |-> flush.outcome]]
                      ELSE IF a = next
                           THEN [activities[a] EXCEPT !.call = Len(calls) + 1]
                           ELSE activities[a]]
           /\ IF more
              THEN /\ flushes' = [flushes EXCEPT
                                     ![f].position = @ + 1,
                                     ![f].call = Len(calls) + 1,
                                     ![f].status = "awaiting",
                                     ![f].outcome = "pending"]
                   /\ Enqueued(activityPriority(activities[next].type))
              ELSE /\ flushes' = [flushes EXCEPT ![f].status = "done",
                                                 ![f].call = 0]
                   /\ UNCHANGED <<calls, queue, batchTimer>>
    /\ UNCHANGED <<trackerVars, cacheVars, now, processing, lastProcessTime,
                   pc, maxBatchSize, processedCount, current, deferredInPass,
                   reads, writes, remote, activityBatch, batchTimers,
                   flushTimers>>

\* variant: the timers and batches of every client are cleared
clearedForAll(perClient, client, empty) ==
    [c \in Clients |-> [session \in Sessions |-> empty]]

\* Map.clear() of a per-instance map of `client`
cleared(perClient, client, empty) ==
    [perClient EXCEPT ![client] = [session \in Sessions |-> empty]]

\* cleanup() of `client`
Cleanup(client) ==
    /\ EventLoopFree
    /\ flushTimers' =
          clearTimeout(flushTimers,
                       {batchTimers[client][session] : session \in Sessions})
    /\ batchTimers' = cleared(batchTimers, client, 0)
    /\ activityBatch' = cleared(activityBatch, client, <<>>)
    /\ UNCHANGED <<trackerVars, queueVars, cacheVars, now, reads, writes,
                   remote, activities, flushes>>

-----------------------------------------------------------------------------
Init ==
    /\ requestsRemaining = DEFAULT_REQUESTS
    /\ requestsLimit = DEFAULT_REQUESTS
    /\ resetTimestamp = DEFAULT_RESET_MS
    /\ complexityRemaining = DEFAULT_COMPLEXITY
    /\ complexityLimit = DEFAULT_COMPLEXITY
    /\ requestHistory = <<>>
    /\ now = 0
    /\ queue = <<>>
    /\ processing = FALSE
    /\ batchTimer = FALSE
    /\ lastProcessTime = 0
    /\ calls = <<>>
    /\ pc = "idle"
    /\ maxBatchSize = 0
    /\ processedCount = 0
    /\ current = 0
    /\ deferredInPass = 0
    /\ cache = <<>>
    /\ got = NoGet
    /\ reads = <<>>
    /\ writes = <<>>
    /\ remote = 0
    /\ activityBatch = [client \in Clients |-> [session \in Sessions |-> <<>>]]
    /\ batchTimers = [client \in Clients |-> [session \in Sessions |-> 0]]
    /\ flushTimers = {}
    /\ activities = <<>>
    /\ flushes = <<>>

Next ==
    \/ \E priority \in Priorities : Enqueue(priority, MaxRequests)
    \/ BatchTimerFires
    \/ LoopStep
    \/ \E result \in ExecutorResults :
          ExecutorSettles(result, MaxQueueRateLimitErrors)
    \/ \E id \in 1..Len(calls) : RetryTimerFires(id)
    \/ Clear
    \/ \E headers \in ModeHeaders : UpdateFromHeaders(headers, MaxHistory)

Spec == Init /\ [][Next]_vars

\* the queue with executors that fail up to the retry budget and beyond
RetryNext ==
    \/ \E priority \in Priorities : Enqueue(priority, MaxRequests)
    \/ BatchTimerFires
    \/ LoopStep
    \/ \E result \in ExecutorResults :
          ExecutorSettles(result, MaxRateLimitErrors)
    \/ \E id \in 1..Len(calls) : RetryTimerFires(id)

RetrySpec == Init /\ [][RetryNext]_vars

\* the queue filled beyond the largest batch size with calls that succeed
BatchNext ==
    \/ \E priority \in {"critical", "normal"} :
          Enqueue(priority, MaxBatchRequests)
    \/ BatchTimerFires
    \/ LoopStep
    \/ ExecutorSettles(Success, MaxQueueRateLimitErrors)
    \/ \E headers \in ModeHeaders :
          UpdateFromHeaders(headers, MaxBatchModeUpdates)

BatchSpec == Init /\ [][BatchNext]_vars

\* the tracker taken alone, called with any header mapping
TrackerNext ==
    \/ \E headers \in TrackerHeaders :
          UpdateFromHeaders(headers, MaxTrackerHistory)
    \/ ConsumeRequest(MaxTrackerHistory)
    \/ Tick

TrackerSpec == Init /\ [][TrackerNext]_vars

\* header updates alone, with any header mapping
UpdateNext == \E headers \in TrackerHeaders : UpdateFromHeaders(headers, MaxUpdates)

UpdateSpec == Init /\ [][UpdateNext]_vars

\* the cache taken alone, one key read, written and invalidated over time
CacheNext ==
    \/ \E key \in CacheKeys : \E allowStale \in BOOLEAN :
          CacheGet(key, allowStale, MaxAccess)
    \/ \E key \in CacheKeys : \E stored \in Issues : CacheSet(key, stored)
    \/ \E key \in CacheKeys : CacheInvalidate(key)
    \/ CacheTick(MaxCacheTicks)

CacheSpec == Init /\ [][CacheNext]_vars

\* the cache warmed and then filled with new keys beyond its capacity, while
\* the two oldest entries are read and the oldest is set again
EvictNext ==
    \/ CacheWarm(WarmSize)
    \/ \E key \in {1, 2} : CacheGet(key, FALSE, MaxEvictAccess)
    \/ /\ cache # <<>>
       /\ newKey(cache) <= WarmSize + MaxNewKeys
       /\ CacheSet(newKey(cache), "v1")
    \/ cache # <<>> /\ CacheSet(1, "v2")
    \/ CacheTick(MaxEvictTicks)

EvictSpec == Init /\ [][EvictNext]_vars

\* the client reading one issue through the shared tracker, queue and cache
ClientNext ==
    \/ \E key \in ClientKeys : IssueRead(key, MaxReads)
    \/ BatchTimerFires
    \/ LoopStep
    \/ \E result \in ExecutorResults :
          FetchSettles(result, NoResetHeader, issueAt(remote),
                       MaxClientRateLimitErrors)
    \/ \E id \in 1..Len(calls) : RetryTimerFires(id)
    \/ CacheTick(MaxClientTicks)

ClientSpec == Init /\ [][ClientNext]_vars

\* the client's requests ending in every way the tracker is told of
TrackingNext ==
    \/ \E key \in ClientKeys : IssueRead(key, MaxTrackedReads)
    \/ BatchTimerFires
    \/ LoopStep
    \/ \E result \in ClientResults : \E resetHeader \in ResetHeaders :
          FetchSettles(result, resetHeader, issueAt(remote),
                       MaxTrackedRateLimitErrors)
    \/ \E id \in 1..Len(calls) : RetryTimerFires(id)
    \/ CacheTick(MaxTrackedTicks)

TrackingSpec == Init /\ [][TrackingNext]_vars

\* the client reading and writing one issue
WriteNext ==
    \/ \E key \in ClientKeys : IssueRead(key, MaxWriteReads)
    \/ \E key \in ClientKeys : UpdateIssue(key, MaxWrites)
    \/ BatchTimerFires
    \/ LoopStep
    \/ \E result \in ExecutorResults :
          FetchSettles(result, NoResetHeader, issueAt(remote),
                       MaxWriteRateLimitErrors)
    \/ \E result \in ExecutorResults :
          UpdateSettles(result, NoResetHeader, MaxWriteRateLimitErrors)
    \/ \E id \in 1..Len(calls) : RetryTimerFires(id)

WriteSpec == Init /\ [][WriteNext]_vars

\* two clients emitting agent activities while the tracker changes mode
ActivityNext ==
    \/ \E client \in Clients : \E session \in Sessions :
       \E type \in ActivityTypes :
          CreateAgentActivity(client, session, type, MaxActivities)
    \/ \E client \in Clients : \E session \in Sessions :
          FlushTimerFires(client, session)
    \/ \E f \in 1..Len(flushes) : FlushResumes(f)
    \/ \E client \in Clients : Cleanup(client)
    \/ BatchTimerFires
    \/ LoopStep
    \/ \E result \in ExecutorResults \ {RateLimitError} :
          ActivitySettles(result, NoResetHeader, MaxClientRateLimitErrors)
    \/ \E headers \in ModeHeaders : UpdateFromHeaders(headers, MaxModeUpdates)

ActivitySpec == Init /\ [][ActivityNext]_vars

\* the client writing while the remote rejects a request for quota and the
\* clock runs past the reset time; every pending timer fires, the pass goes
\* on after its await, the remote answers and the clock advances in the end
BackpressureSettles ==
    \E result \in ExecutorResults : \E resetHeader \in ResetHeaders :
        UpdateSettles(result, resetHeader, MaxBackpressureRateLimitErrors)

BackpressureRetry == \E id \in 1..Len(calls) : RetryTimerFires(id)

BackpressureNext ==
    \/ \E key \in ClientKeys : UpdateIssue(key, MaxBackpressureWrites)
    \/ BatchTimerFires
    \/ LoopStep
    \/ BackpressureSettles
    \/ BackpressureRetry
    \/ CacheTick(MaxBackpressureTicks)

BackpressureSpec ==
    /\ Init /\ [][BackpressureNext]_vars
    /\ WF_vars(BatchTimerFires) /\ WF_vars(LoopStep)
    /\ WF_vars(BackpressureSettles) /\ WF_vars(BackpressureRetry)
    /\ WF_vars(CacheTick(MaxBackpressureTicks))

\* what the run-time and the remote service do by themselves once the
\* clients have called: pending timers fire, the pass and the flushes go on
\* after their awaits, the remote answers
ActivityProgress ==
    \/ \E client \in Clients : \E session \in Sessions :
          FlushTimerFires(client, session)
    \/ \E f \in 1..Len(flushes) : FlushResumes(f)
    \/ BatchTimerFires
    \/ LoopStep
    \/ \E result \in ExecutorResults \ {RateLimitError} :
          ActivitySettles(result, NoResetHeader, MaxClientRateLimitErrors)

\* two clients emitting agent activities in normal mode, every timer firing
\* and every request answered in the end
ActivityLiveNext ==
    \/ \E client \in Clients : \E session \in Sessions :
       \E type \in ActivityTypes :
          CreateAgentActivity(client, session, type, MaxActivities)
    \/ \E client \in Clients : Cleanup(client)
    \/ ActivityProgress

ActivityLiveSpec ==
    Init /\ [][ActivityLiveNext]_vars /\ WF_vars(ActivityProgress)

\* two clients batching activities while the clock runs: a flush timer fires
\* when its delay has passed
FlushNext ==
    \/ \E client \in Clients : \E session \in Sessions :
          CreateAgentActivity(client, session, "thought", MaxFlushActivities)
    \/ \E client \in Clients : \E session \in Sessions :
          FlushTimerDue(client, session)
    \/ \E client \in Clients : Cleanup(client)
    \/ FlushTick(MaxFlushTicks)
    \/ \E headers \in ModeHeaders :
          UpdateFromHeaders(headers, MaxFlushModeUpdates)

FlushSpec == Init /\ [][FlushNext]_vars

-----------------------------------------------------------------------------
(* Properties of RequestQueue *)

Ids == 1..Len(calls)
InQueue(id) == \E i \in 1..Len(queue) : queue[i] = id
\* the step in which the executor of `id` is started
Starts(id) == calls[id].status = "queued" /\ calls'[id].status = "executing"
\* the loop is at a head of low priority that the tracker does not admit
BlockedLowHead ==
    /\ pc = "loop" /\ queue # <<>> /\ processedCount < maxBatchSize
    /\ calls[Head(queue)].priority = "low"
    /\ ~shouldAllowRequest("low")
\* n rate limit errors in a row
RateLimitRun(n) == [i \in 1..n |-> RateLimitError]

\* C1: when the head of the queue is a low-priority call that the tracker
\* does not admit (so the queue holds only low-priority calls), the pass moves
\* it to the tail and stops: it returns with processing = false, having
\* executed nothing and with every call still pending.
C1_LowDeferralEndsPass ==
    [][BlockedLowHead =>
          /\ queue' = Append(Tail(queue), Head(queue))
          /\ processing' = FALSE /\ pc' = "idle"
          /\ calls' = calls]_vars

\* C2: an executor is started only when no call of strictly higher priority
\* is waiting in the queue; so calls enqueued together before a pass are
\* started in order of priority rank whatever their order of arrival.
C2_StartsInPriorityOrder ==
    [][\A id \in Ids : Starts(id) =>
          \A other \in Ids : InQueue(other) =>
              priorityOrder(calls[other].priority)
                  >= priorityOrder(calls[id].priority)]_vars

\* a critical call enqueued after a low one has been started in normal mode
\* while the low one, never started, still waits
C2_Witness ==
    \E a \in Ids : \E b \in Ids :
        /\ a < b
        /\ calls[a].priority = "low" /\ calls[b].priority = "critical"
        /\ calls[a].executions = 0 /\ InQueue(a)
        /\ calls[b].executions = 1
        /\ getOperationMode = "normal"

C6_RetryThenSuccess ==
    \A id \in Ids : \A k \in 1..3 :
        (/\ Len(calls[id].results) = k + 1
         /\ calls[id].results = Append(RateLimitRun(k), Success))
        => /\ calls[id].status = "settled" /\ calls[id].outcome = Success
           /\ calls[id].retryCount = k
           /\ calls[id].executions = k + 1

\* two rate limit errors, then success
C6_Witness ==
    \E id \in Ids :
        /\ calls[id].results = <<RateLimitError, RateLimitError, Success>>
        /\ calls[id].outcome = Success

\* C7: a call whose executor fails with an error that is not a rate limit
\* error is rejected with that error and is not run again: it is not put back
\* in the queue, and when the failure is that of its first run its retryCount
\* is 0 and it has run once.
C7_NoRetryOfOtherErrors ==
    \A id \in Ids :
        (\E i \in 1..Len(calls[id].results) :
            calls[id].results[i] = RegularError)
        => /\ calls[id].status = "settled"
           /\ calls[id].outcome = RegularError
           /\ ~InQueue(id)
           /\ calls[id].executions = Len(calls[id].results)
           /\ calls[id].results[1] = RegularError
                 => calls[id].executions = 1 /\ calls[id].retryCount = 0

C7_Witness ==
    \E id \in Ids :
        /\ calls[id].results = <<RegularError>>
        /\ calls[id].outcome = RegularError

\* C8: the executor of a call is run at most MAX_RETRIES + 1 = 4 times; a call
\* whose executor has failed 4 times with a rate limit error is rejected with
\* that error and is not enqueued again.
C8_RetryBounded ==
    \A id \in Ids :
        /\ calls[id].executions <= 4
        /\ calls[id].retryCount <= MAX_RETRIES
        /\ (Len(calls[id].results) = 4 /\ calls[id].results = RateLimitRun(4))
              => /\ calls[id].status = "settled"
                 /\ calls[id].outcome = RateLimitError
                 /\ ~InQueue(id)

C8_Witness ==
    \E id \in Ids :
        /\ calls[id].results = RateLimitRun(4)
        /\ calls[id].outcome = RateLimitError
        /\ calls[id].executions = 4

\* C9: clear() rejects with 'Queue cleared' every call that is pending
\* (enqueued and not settled) when it is called, and leaves the queue empty
\* with no pass scheduled.
C9_ClearRejectsEveryPending ==
    [][Clear =>
          /\ \A id \in Ids : calls[id].status # "settled"
                => /\ calls'[id].status = "settled"
                   /\ calls'[id].outcome = QueueCleared
          /\ queue' = <<>>
          /\ batchTimer' = FALSE]_vars

-----------------------------------------------------------------------------
(* Properties of RateLimitTracker *)

\* the admission table of the three operating modes
AdmittedIn(mode, priority) ==
    CASE mode = "normal" -> TRUE
      [] mode = "conservative" -> priority \in {"critical", "normal"}
      [] mode = "emergency" -> priority = "critical"

\* C5: for every value of requestsRemaining and every priority,
\* shouldAllowRequest(priority) is what the table gives for getOperationMode().
C5_AdmissionFollowsMode ==
    \A priority \in Priorities :
        shouldAllowRequest(priority) = AdmittedIn(getOperationMode, priority)

\* C10: 0 <= requestsRemaining <= requestsLimit in every state of the tracker.
C10_RemainingWithinLimit ==
    /\ JsLe(0, requestsRemaining)
    /\ JsLe(requestsRemaining, requestsLimit)

\* a header is present when it is a string, or an array with a first element
HeaderPresent(h, key) ==
    \/ h[key].kind = "string"
    \/ h[key].kind = "array" /\ Len(h[key].a) >= 1
\* the text of a present header
HeaderText(h, key) ==
    IF h[key].kind = "string" THEN h[key].s ELSE Head(h[key].a)
\* what a field holds after an update: the parsed text or the value before
ParsedOrKept(h, key, before) ==
    IF HeaderPresent(h, key) THEN parseInt(HeaderText(h, key)) ELSE before

\* C11: after updateFromHeaders(h) each of the five quota fields whose header
\* is present in h (a string, or the first element of an array) holds the
\* parsed value (the reset header, in epoch seconds, as milliseconds), and each
\* field whose header is absent holds the value it had before the call.
C11_PresentParsedAbsentKept ==
    [][\A h \in TrackerHeaders : UpdateFromHeaders(h, MaxUpdates) =>
          /\ requestsRemaining' =
                 ParsedOrKept(h, "requests-remaining", requestsRemaining)
          /\ requestsLimit' = ParsedOrKept(h, "requests-limit", requestsLimit)
          /\ resetTimestamp' =
                 IF HeaderPresent(h, "requests-reset")
                 THEN JsMul(parseInt(HeaderText(h, "requests-reset")), 1000)
                 ELSE resetTimestamp
          /\ complexityRemaining' =
                 ParsedOrKept(h, "complexity-remaining", complexityRemaining)
          /\ complexityLimit' =
                 ParsedOrKept(h, "complexity-limit", complexityLimit)]_vars

\* remaining came from the first element of an array, limit and reset from
\* strings, the complexity limit from a string; the complexity remaining, whose
\* header was never present, is still the default
C11_Witness ==
    /\ requestsRemaining = 500 /\ requestsLimit = 1000
    /\ resetTimestamp = 90000
    /\ complexityRemaining = DEFAULT_COMPLEXITY /\ complexityLimit = 999
    /\ Len(requestHistory) = 2

\* a header whose text holds no number
Malformed(h, key) ==
    HeaderPresent(h, key) /\ parseInt(HeaderText(h, key)) = NaN

\* C12: updateFromHeaders() given a malformed (non-numeric) value for
\* requests-remaining ignores that field: the field keeps the number it held
\* before, and the well-formed fields of the same mapping are applied.
C12_MalformedIgnored ==
    [][\A h \in TrackerHeaders :
          (UpdateFromHeaders(h, MaxTrackerHistory)
             /\ Malformed(h, "requests-remaining")) =>
              /\ requestsRemaining' = requestsRemaining
              /\ requestsRemaining' # NaN
              /\ requestsLimit' = ParsedOrKept(h, "requests-limit", requestsLimit)
              /\ complexityLimit' =
                     ParsedOrKept(h, "complexity-limit", complexityLimit)]_vars

\* C13: getOperationMode() is normal iff remaining > 300, conservative iff
\* 100 < remaining <= 300 and emergency iff remaining <= 100, and
\* getRecommendedBatchWindow() is 500, 2000 and 5000 ms respectively.
C13_ModeAndWindowFollowRemaining ==
    /\ getOperationMode = "normal"
          <=> JsGt(requestsRemaining, 300)
    /\ getOperationMode = "conservative"
          <=> (JsGt(requestsRemaining, 100) /\ JsLe(requestsRemaining, 300))
    /\ getOperationMode = "emergency"
          <=> JsLe(requestsRemaining, 100)
    /\ getRecommendedBatchWindow =
          CASE getOperationMode = "normal" -> 500
            [] getOperationMode = "conservative" -> 2000
            [] getOperationMode = "emergency" -> 5000

-----------------------------------------------------------------------------
(* Properties of IssueCache *)

Holds(c, key) == cacheIndex(c, key) # 0
EntryOf(c, key) == c[cacheIndex(c, key)]
KeysOf(c) == {c[i].key : i \in 1..Len(c)}
\* the age at this moment of the entry held for key
AgeOf(key) == now - EntryOf(cache, key).timestamp

\* C14: for an entry stored at time t with time-to-live ttl, get(key,
\* allowStale) at time now returns the stored issue iff now - t <= ttl, or
\* allowStale and now - t <= 1 h; otherwise, and when there is no entry, it
\* returns null.
C14_GetReturnsFreshOrStale ==
    [][\A key \in CacheKeys : \A allowStale \in BOOLEAN :
          CacheGet(key, allowStale, MaxAccess) =>
              got'.returns =
                  IF /\ Holds(cache, key)
                     /\ \/ AgeOf(key) <= EntryOf(cache, key).ttl
                        \/ allowStale /\ AgeOf(key) <= 3600000
                  THEN EntryOf(cache, key).issue
                  ELSE Null]_vars

\* an entry with the base TTL, set 20 minutes ago, was just returned by a
\* get() that allows stale data
C14_Witness ==
    /\ Holds(cache, 123)
    /\ EntryOf(cache, 123).ttl = 600000 /\ AgeOf(123) = 1200000
    /\ EntryOf(cache, 123).lastAccessed = now
    /\ got.allowStale /\ got.returns = EntryOf(cache, 123).issue

\* C15: get() on an entry whose age exceeds the stale limit evicts the entry:
\* after the call the cache holds no entry for the key and its size is one
\* less.
C15_ExpiredEntryEvicted ==
    [][\A key \in CacheKeys : \A allowStale \in BOOLEAN :
          (/\ CacheGet(key, allowStale, MaxAccess)
           /\ Holds(cache, key) /\ AgeOf(key) > STALE_TTL) =>
              /\ ~Holds(cache', key)
              /\ Len(cache') = Len(cache) - 1]_vars

\* C16: set(key, issue) gives the new entry the extended TTL (30 min) iff an
\* entry for key existed just before with accessCount > 5, otherwise the base
\* TTL (10 min); the new accessCount is that of the previous entry (0 if there
\* was none).  An entry read more than 5 times and then set again is a fresh
\* hit 20 minutes later.
C16_SetChoosesTtl ==
    [][/\ \A key \in CacheKeys : \A stored \in Issues :
             CacheSet(key, stored) =>
                 /\ Holds(cache', key)
                 /\ EntryOf(cache', key).issue = stored
                 /\ EntryOf(cache', key).ttl =
                        IF Holds(cache, key)
                           /\ EntryOf(cache, key).accessCount > 5
                        THEN 1800000 ELSE 600000
                 /\ EntryOf(cache', key).accessCount =
                        IF Holds(cache, key)
                        THEN EntryOf(cache, key).accessCount ELSE 0
       /\ \A key \in CacheKeys :
             (/\ CacheGet(key, FALSE, MaxAccess)
              /\ Holds(cache, key)
              /\ EntryOf(cache, key).ttl = EXTENDED_TTL
              /\ AgeOf(key) = 1200000) =>
                 got'.returns = EntryOf(cache, key).issue]_vars

\* an entry read 6 times and set again was returned 20 minutes later by a
\* get() that does not allow stale data
C16_Witness ==
    /\ Holds(cache, 123)
    /\ EntryOf(cache, 123).ttl = 1800000 /\ AgeOf(123) = 1200000
    /\ EntryOf(cache, 123).accessCount = 7
    /\ EntryOf(cache, 123).lastAccessed = now
    /\ ~got.allowStale /\ got.returns = EntryOf(cache, 123).issue

\* a set() of a new key found the cache full: capacity eviction has run
SetOverflowed ==
    /\ Len(cache) = MAX_CACHE_SIZE
    /\ KeysOf(cache') \ KeysOf(cache) # {}
\* the entries that a step has removed
Evicted == {i \in 1..Len(cache) : ~Holds(cache', cache[i].key)}

\* C17: when a set() triggers capacity eviction, every evicted entry has a
\* lastAccessed less than or equal to that of every entry that survives.
C17_EvictsLeastRecentlyAccessed ==
    [][SetOverflowed =>
          \A i \in Evicted : \A j \in 1..Len(cache') :
              cache[i].lastAccessed <= cache'[j].lastAccessed]_vars

\* the oldest entry, read after the clock had advanced, has survived the
\* eviction that removed the entries inserted after it
C17_Witness ==
    /\ Len(cache) = 90
    /\ Holds(cache, 1) /\ EntryOf(cache, 1).accessCount = 1
    /\ EntryOf(cache, 1).timestamp = 0 /\ EntryOf(cache, 1).lastAccessed > 0
    /\ \A key \in 2..12 : ~Holds(cache, key)
    /\ Holds(cache, 101)

\* C18: the number of entries never exceeds the capacity of 100 once an
\* operation has returned; a set() that raises the size above 100 removes
\* exactly (size - 100 + 10) entries, leaving 90.
C18_SizeWithinCapacity ==
    [][/\ Len(cache') <= 100
       /\ SetOverflowed =>
             /\ Cardinality(Evicted) = (Len(cache) + 1) - 100 + 10
             /\ Len(cache') = 90]_vars

\* the 101st key has been set: the 11 entries accessed least recently are
\* gone and 90 remain
C18_Witness ==
    /\ Len(cache) = 90 /\ Holds(cache, 101)
    /\ \A key \in 1..11 : ~Holds(cache, key)
    /\ \A key \in 12..100 : Holds(cache, key)

-----------------------------------------------------------------------------
(* Properties of LinearClientWrapper *)

\* the cache holds a fresh entry for key
FreshEntry(key) ==
    Holds(cache, key) /\ AgeOf(key) <= EntryOf(cache, key).ttl
\* an earlier issue(key) has fetched the issue from the remote
FetchedBefore(key) ==
    \E i \in 1..Len(reads) : reads[i].key = key /\ reads[i].status = "fetched"

\* C19: issue(key) with a fresh cache entry for key returns the cached issue
\* and enqueues nothing; so after a read whose fetch succeeded, a second read
\* of the key within the TTL makes no remote call.
C19_FreshReadEnqueuesNothing ==
    [][\A key \in ClientKeys : (IssueRead(key, MaxReads) /\ FreshEntry(key)) =>
          /\ calls' = calls /\ queue' = queue /\ batchTimer' = batchTimer
          /\ reads'[Len(reads')].call = 0
          /\ reads'[Len(reads')].returned = EntryOf(cache, key).issue]_vars

\* the first read was fetched; the second, 10 minutes later, was answered from
\* the cache with the fetched issue, and one request in all was enqueued
C19_Witness ==
    /\ Len(reads) = 2 /\ Len(calls) = 1
    /\ reads[1].status = "fetched" /\ reads[2].status = "cached"
    /\ reads[2].key = reads[1].key /\ reads[2].returned = reads[1].returned
    /\ reads[2].call = 0
    /\ AgeOf(reads[2].key) = DEFAULT_TTL

\* C20: on a read miss the fetch is enqueued with priority critical only for
\* the first fetch of the key; the read of a key that has been fetched before
\* and whose entry is no longer fresh is enqueued with priority normal.
C20_RefreshIsNormal ==
    [][\A key \in ClientKeys :
          (IssueRead(key, MaxReads) /\ Len(calls') > Len(calls)) =>
              calls'[Len(calls')].priority =
                  IF FetchedBefore(key) THEN "normal" ELSE "critical"]_vars

-----------------------------------------------------------------------------
(* Properties of LinearClientWrapper: reads under denial and failure *)

\* an entry for key that get(key, true) would still return
StaleServiceable(key) ==
    Holds(cache, key) /\ AgeOf(key) <= STALE_TTL
\* the priority of a read of key: critical for the first fetch of the key,
\* normal for a refresh
ReadPriority(key) == IF FetchedBefore(key) THEN "normal" ELSE "critical"
\* the step is a call of issue(key)
Reads(key) ==
    /\ Len(reads') = Len(reads) + 1
    /\ reads'[Len(reads')].key = key
\* the step settles the read numbered i, its request having failed
FailsRead(i) ==
    /\ reads[i].status = "fetching"
    /\ reads'[i].status # "fetching"
    /\ calls'[reads[i].call].outcome # Success

\* C21: a call of issue(key) that finds no fresh entry, whose priority the
\* tracker does not admit, and for which an entry within the stale limit
\* exists, returns that entry's issue at once and enqueues no request.
C21_DeniedReadServedStale ==
    [][\A key \in ClientKeys :
          (/\ Reads(key)
           /\ ~FreshEntry(key)
           /\ ~shouldAllowRequest(ReadPriority(key))
           /\ StaleServiceable(key))
          => /\ reads'[Len(reads')].call = 0
             /\ reads'[Len(reads')].returned = EntryOf(cache, key).issue
             /\ calls' = calls /\ queue' = queue]_vars

\* C22: a call of issue(key) that finds no fresh entry, whose priority the
\* tracker does not admit, and for which no entry within the stale limit
\* exists, fails at once: it enqueues no request and returns an error.
C22_DeniedReadWithoutStaleFails ==
    [][\A key \in ClientKeys :
          (/\ Reads(key)
           /\ ~FreshEntry(key)
           /\ ~shouldAllowRequest(ReadPriority(key))
           /\ ~StaleServiceable(key))
          => /\ reads'[Len(reads')].call = 0
             /\ reads'[Len(reads')].status = "failed"
             /\ calls' = calls /\ queue' = queue]_vars

\* C23: when the request of a read settles with an error, the read returns
\* the cached issue if the cache holds an entry for the key within the stale
\* limit, and fails with that error only if it holds none.
C23_FailedFetchFallsBackToStale ==
    [][\A i \in 1..Len(reads) :
          FailsRead(i)
          => IF StaleServiceable(reads[i].key)
             THEN /\ reads'[i].status = "staleAfterError"
                  /\ reads'[i].returned = EntryOf(cache, reads[i].key).issue
             ELSE /\ reads'[i].status = "failed"
                  /\ reads'[i].returned = calls'[reads[i].call].outcome]_vars

\* a read whose fetch failed has returned the issue an earlier read fetched,
\* and another read, with nothing cached, has failed with the remote's error
C23_Witness ==
    \E i, j \in 1..Len(reads) :
        /\ reads[i].status = "staleAfterError"
        /\ calls[reads[i].call].outcome = RegularError
        /\ \E k \in 1..Len(reads) :
              reads[k].status = "fetched" /\ reads[k].returned = reads[i].returned
        /\ reads[j].status = "failed"
        /\ reads[j].returned = calls[reads[j].call].outcome

-----------------------------------------------------------------------------
(* Properties of LinearClientWrapper: writes *)

\* the step is a call of updateIssue(key)
Writes(key) ==
    /\ Len(writes') = Len(writes) + 1
    /\ writes'[Len(writes')].key = key
\* the writes of key whose mutation the remote has applied
AppliedWrites(key) ==
    {i \in 1..Len(writes) : writes[i].key = key /\ writes[i].status = "done"}

\* C24: updateIssue(key) leaves no cache entry for key and enqueues its
\* mutation at normal priority; and a later issue(key) is never answered
\* from a fresh entry with the issue the cache held when updateIssue was
\* called (stated here for the writes whose mutation has been applied, for
\* which that issue is out of date).
C24_WriteInvalidatesBeforeMutation ==
    [][\A key \in ClientKeys :
          /\ Writes(key)
             => /\ ~Holds(cache', key)
                /\ Len(calls') = Len(calls) + 1
                /\ calls'[Len(calls')].priority = "normal"
                /\ \E n \in 1..Len(queue') : queue'[n] = Len(calls')
          /\ (Reads(key) /\ FreshEntry(key))
             => \A i \in AppliedWrites(key) :
                   \/ writes[i].cachedBefore = Null
                   \/ reads'[Len(reads')].returned # writes[i].cachedBefore]_vars

\* the first two parts of C24 alone
WriteInvalidatesAndEnqueuesNormal ==
    [][\A key \in ClientKeys :
          Writes(key)
          => /\ ~Holds(cache', key)
             /\ Len(calls') = Len(calls) + 1
             /\ calls'[Len(calls')].priority = "normal"
             /\ \E n \in 1..Len(queue') : queue'[n] = Len(calls')]_vars

-----------------------------------------------------------------------------
(* Properties of LinearClientWrapper: executeWithTracking *)

Last(seq) == seq[Len(seq)]

\* C29: when the remote call of a request run through executeWithTracking
\* ends, the tracker's remaining becomes max(0, remaining - 1) if it
\* succeeded; becomes 0, with the reset time taken from the error's reset
\* header or, without one, one hour from now (in whole seconds), if it failed
\* with a rate limit error; and the tracker is left as it was if it failed
\* with another error.  In both failure cases the queue is given the error.
C29_TrackerFollowsOutcome ==
    [][\A result \in ClientResults : \A resetHeader \in ResetHeaders :
          RequestSettles(result, resetHeader, MaxTrackedRateLimitErrors)
          => /\ Last(calls'[current].results) = result
             /\ result = Success
                => /\ requestsRemaining' = MathMax(0, requestsRemaining - 1)
                   /\ resetTimestamp' = resetTimestamp
             /\ isRateLimitError(result)
                => /\ requestsRemaining' = 0
                   /\ getOperationMode' = "emergency"
                   /\ resetTimestamp' =
                         IF resetHeader # NoResetHeader
                         THEN parseInt(resetHeader) * 1000
                         ELSE ((now + DEFAULT_RESET_MS) \div 1000) * 1000
             /\ (result # Success /\ ~isRateLimitError(result))
                => UNCHANGED trackerVars]_vars

\* a request has failed with a rate limit error that carried a reset header
\* and has succeeded on retry, with nothing remaining to consume
C29_Witness ==
    /\ requestsRemaining = 0
    /\ resetTimestamp = parseInt(<<"7", "2", "0", "0">>) * 1000
    /\ \E id \in Ids : calls[id].results = <<RateLimitError, Success>>
    /\ \E id \in Ids : calls[id].outcome = Http429Error

-----------------------------------------------------------------------------
(* Properties of RequestQueue: order of the pending queue *)

\* C30: in every reachable state the pending queue is ordered by priority
\* rank: no request precedes one of a more urgent priority, whatever
\* enqueues, dequeues, deferrals of a low-priority head to the tail,
\* re-insertions for retry and clears have happened.
C30_QueueOrderedByPriority ==
    \A i, j \in 1..Len(queue) :
        i < j => priorityOrder(calls[queue[i]].priority)
                    <= priorityOrder(calls[queue[j]].priority)

\* a request re-inserted for its retry stands in the queue ahead of a
\* request of a less urgent priority that was enqueued before the retry
C30_Witness ==
    /\ Len(queue) = 2
    /\ calls[queue[1]].retryCount > 0
    /\ calls[queue[1]].priority # calls[queue[2]].priority
    /\ C30_QueueOrderedByPriority

-----------------------------------------------------------------------------
(* Properties of LinearClientWrapper: agent activities *)

\* the step is a call of createAgentActivity()
Emits == Len(activities') = Len(activities) + 1
\* the activity emitted by the step
Emitted == activities'[Len(activities')]
\* the step enqueues one request, of the given priority
EnqueuesOne(priority) ==
    /\ Len(calls') = Len(calls) + 1
    /\ calls'[Len(calls')].priority = priority
    /\ \E n \in 1..Len(queue') : queue'[n] = Len(calls')

\* C25: in every operating mode, an activity of type 'response' or 'error' is
\* not added to a batch: createAgentActivity() enqueues it at once as a
\* request of its own, at normal priority.
C25_ResponsesNeverBatched ==
    [][(Emits /\ Emitted.type \in {"response", "error"})
       => /\ activityBatch' = activityBatch
          /\ batchTimers' = batchTimers
          /\ EnqueuesOne("normal")
          /\ Emitted.call = Len(calls')]_vars

\* C25 in the normal and conservative modes alone
ResponsesSentAtOnceOutsideEmergency ==
    [][(/\ Emits /\ Emitted.type \in {"response", "error"}
        /\ getOperationMode # "emergency")
       => /\ activityBatch' = activityBatch
          /\ batchTimers' = batchTimers
          /\ EnqueuesOne("normal")
          /\ Emitted.call = Len(calls')]_vars

\* the step starts a flush: processBatchedActivities() takes a batch
Flushes == Len(flushes') = Len(flushes) + 1
\* the thoughts waiting in the batch that the step flushes, in batch order
FlushedThoughts ==
    thoughtsOf(activityBatch[flushes'[Len(flushes')].client]
                            [flushes'[Len(flushes')].session])
\* the thoughts of `client` for `session` that wait in a batch, by activity
\* id, which is the order of their emission
WaitingThoughts(client, session) ==
    {a \in 1..Len(activities) :
        /\ activities[a].client = client /\ activities[a].session = session
        /\ activities[a].type = "thought"
        /\ \E n \in 1..Len(activityBatch[client][session]) :
              activityBatch[client][session][n] = a}
\* the step resumes the flush numbered f after its combined thought succeeded
ResumesAfterThought(f) ==
    /\ flushes[f].status = "resuming" /\ flushes'[f].status # "resuming"
    /\ flushes[f].position = 0 /\ flushes[f].outcome = Success

\* C26: when a flush finds n >= 2 thoughts of one session in the batch, it
\* enqueues exactly one request for them, at low priority, whose body is the
\* n thoughts in order of emission, each after its number 1..n; and when that
\* request has succeeded, the promises of all n callers resolve to its result.
C26_ThoughtsCombinedIntoOneCall ==
    [][/\ (Flushes /\ Len(FlushedThoughts) >= 2)
          => LET flush == flushes'[Len(flushes')]
                 waiting == WaitingThoughts(flush.client, flush.session)
             IN  /\ EnqueuesOne("low")
                 /\ flush.call = Len(calls')
                 /\ Len(flush.body) = Cardinality(waiting)
                 /\ \A i \in 1..Len(flush.body) :
                       /\ flush.body[i][1] = i
                       /\ flush.body[i][2] \in waiting
                       /\ \A j \in 1..Len(flush.body) :
                             i < j => flush.body[i][2] < flush.body[j][2]
                 /\ \A a \in waiting : activities'[a].call = flush.call
       /\ \A f \in 1..Len(flushes) :
             (ResumesAfterThought(f) /\ Len(flushes[f].thoughts) >= 2)
             => \A i \in 1..Len(flushes[f].thoughts) :
                   LET a == flushes[f].thoughts[i]
                   IN  /\ activities'[a].status = "resolved"
                       /\ activities'[a].result =
                             [call |-> flushes[f].call, outcome |-> Success]
                       /\ activities'[a].call = flushes[f].call]_vars

\* two thoughts of one session were sent as lines 1 and 2 of one low-priority
\* request, and both callers hold that request's result
C26_Witness ==
    \E f \in 1..Len(flushes) :
        /\ flushes[f].status = "done"
        /\ flushes[f].body = << <<1, 1>>, <<2, 2>> >>
        /\ Len(calls) = 1 /\ calls[1].priority = "low"
        /\ calls[1].outcome = Success
        /\ \A a \in {1, 2} :
              /\ activities[a].status = "resolved"
              /\ activities[a].result = [call |-> 1, outcome |-> Success]

UnbatchedErrorOnlyToFailedCall ==
    \A a \in 1..Len(activities) :
        (activities[a].status = "rejected" /\ ~activities[a].batched)
        => /\ activities[a].call # 0
           /\ activities[a].result.call = activities[a].call
           /\ calls[activities[a].call].outcome = activities[a].result.outcome

\* the step cancels a pending flush timer of `client` without running it:
\* a cleanup() of that client
CleansUp(client) ==
    /\ \E session \in Sessions :
          batchTimers[client][session] # 0 /\ batchTimers'[client][session] = 0
    /\ ~Flushes
\* the activity waits in no batch and no flush has taken it
Dropped(a) ==
    /\ activities[a].batched /\ activities[a].status = "pending"
    /\ activities[a].call = 0
    /\ \A client \in Clients : \A session \in Sessions :
       \A n \in 1..Len(activityBatch[client][session]) :
          activityBatch[client][session][n] # a
    /\ \A f \in 1..Len(flushes) :
       \A n \in 1..Len(flushes[f].others) : flushes[f].others[n] # a

\* C28: cleanup() of one client cancels the pending flush timers of that
\* client and nothing else: the tracker, the queue with its requests and its
\* scheduled pass, the cache, and the batches and timers of every other
\* client are left as they were.
C28_CleanupTouchesOwnTimersOnly ==
    [][\A client \in Clients :
          CleansUp(client)
          => /\ \A session \in Sessions : batchTimers'[client][session] = 0
             /\ \A other \in Clients \ {client} :
                   /\ batchTimers'[other] = batchTimers[other]
                   /\ activityBatch'[other] = activityBatch[other]
             /\ UNCHANGED <<trackerVars, queueVars, cacheVars, activities,
                            flushes>>]_vars

\* client 1 has cleaned up while client 2 had a thought waiting: the timer
\* and the batch of client 2 are still there, those of client 1 are gone
C28_Witness ==
    /\ \E a \in 1..Len(activities) : activities[a].client = 1 /\ Dropped(a)
    /\ batchTimers[1]["s1"] = 0 /\ activityBatch[1]["s1"] = <<>>
    /\ batchTimers[2]["s1"] # 0 /\ activityBatch[2]["s1"] # <<>>

-----------------------------------------------------------------------------
(* Properties of the processing pass *)

\* a pass begins in this step
PassStarts == ~processing /\ processing'
\* the executors the running pass has started: those it has awaited and the
\* one it is awaiting
StartedInPass == processedCount + (IF pc = "await" THEN 1 ELSE 0)
\* the largest number of executors a pass may start, by mode
ModeLimit(mode) ==
    CASE mode = "normal" -> 5 [] mode = "conservative" -> 2
      [] mode = "emergency" -> 1

\* C31: a pass starts at most 5 executors when the mode read at its start is
\* normal, at most 2 when it is conservative and at most 1 when it is
\* emergency, however many admitted calls are queued: the limit is fixed
\* from the mode at the start of the pass, is kept until the pass ends, and
\* the pass never has started more executors than it.
C31_PassStartsAtMostBatchSize ==
    [][/\ PassStarts => maxBatchSize' = ModeLimit(getOperationMode)
       /\ (processing /\ processing') => maxBatchSize' = maxBatchSize
       /\ processing' => StartedInPass' <= maxBatchSize']_vars

\* a pass begun in normal mode has run five executors and stops with an
\* admitted call still queued, the mode having changed meanwhile
C31_Witness ==
    /\ pc = "loop" /\ maxBatchSize = 5 /\ processedCount = 5
    /\ queue # <<>> /\ shouldAllowRequest(calls[Head(queue)].priority)
    /\ getOperationMode # "normal"
    /\ Cardinality({id \in Ids : calls[id].executions = 1}) = 5

\* the loop is at a head of normal or critical priority that the tracker
\* does not admit
BlockedHigherHead ==
    /\ pc = "loop" /\ queue # <<>> /\ processedCount < maxBatchSize
    /\ calls[Head(queue)].priority \in {"normal", "critical"}
    /\ ~shouldAllowRequest(calls[Head(queue)].priority)

\* C32: when the head of the queue is a normal or critical call that the
\* tracker does not admit, the pass stops without taking it off the queue: no
\* executor is started, the queue is as it was with the blocked call at its
\* head, the pass has ended and a next pass is scheduled.
C32_BlockedHeadStopsPass ==
    [][BlockedHigherHead =>
          /\ queue' = queue /\ calls' = calls /\ current' = current
          /\ pc' = "idle" /\ processing' = FALSE
          /\ batchTimer' = TRUE]_vars

\* a pass that has run an executor is at a blocked normal head with another
\* call waiting behind it
C32_Witness ==
    /\ BlockedHigherHead
    /\ processedCount >= 1
    /\ Len(queue) >= 2

-----------------------------------------------------------------------------
(* Properties of the flush timers *)

\* the step adds an entry to the batch of a session of a client
Batches(client, session) ==
    Len(activityBatch'[client][session])
        = Len(activityBatch[client][session]) + 1
\* the step flushes the batch of a session of a client
FlushesBatch(client, session) ==
    /\ Flushes
    /\ flushes'[Len(flushes')].client = client
    /\ flushes'[Len(flushes')].session = session
\* the timeouts that are pending before the step and not after it
Gone == flushTimers \ flushTimers'

\* C33: a session of a client has at most one flush timer pending at any
\* time, the one whose handle the client holds for it; every entry added to
\* its batch leaves it with one timer, set at that moment for the batch
\* window recommended at that moment, and leaves the timers of the other
\* sessions and clients as they were; and a batch is flushed only when the
\* window its timer was set for has passed since its latest entry.
C33_OneFlushTimerPerStream ==
    [][\A client \in Clients : \A session \in Sessions :
          /\ Cardinality(timersOf(client, session)') <= 1
          /\ \A t \in timersOf(client, session)' :
                 t.handle = batchTimers'[client][session]
          /\ Batches(client, session)
                => /\ timersOf(client, session)'
                         = {[handle |-> Len(activities'), client |-> client,
                             session |-> session, setAt |-> now,
                             delay |-> getRecommendedBatchWindow]}
                   /\ \A t \in flushTimers :
                          (t.client # client \/ t.session # session)
                          => t \in flushTimers'
                   /\ \A t \in flushTimers' :
                          (t.client # client \/ t.session # session)
                          => t \in flushTimers
          /\ FlushesBatch(client, session)
                => \E t \in Gone :
                      /\ Gone = {t}
                      /\ t.client = client /\ t.session = session
                      /\ \A n \in 1..Len(activityBatch[client][session]) :
                             now >= activities[activityBatch[client][session][n]].at
                                      + t.delay]_vars

\* two thoughts emitted at different times for one session have been flushed
\* together
C33_Witness ==
    \E f \in 1..Len(flushes) :
        /\ Len(flushes[f].thoughts) = 2
        /\ activities[flushes[f].thoughts[1]].at
              < activities[flushes[f].thoughts[2]].at

-----------------------------------------------------------------------------
(* Properties of the request rate *)

\* the recorded events that lie inside the sliding window now
EventsInWindow ==
    {i \in 1..Len(requestHistory) :
        requestHistory[i] > now - HISTORY_WINDOW_MS}

\* C34: getCurrentRequestRate() returns 0 whenever fewer than two recorded
\* events lie inside the 60-second window at the time of the call, also when
\* older events were recorded and have fallen out of the window since.
C34_RateZeroBelowTwoEvents ==
    Cardinality(EventsInWindow) < 2 => getCurrentRequestRate = ZeroRate

\* C34 for the events recorded, in the window or not
RateZeroBelowTwoRecorded ==
    Len(requestHistory) < 2 => getCurrentRequestRate = ZeroRate

-----------------------------------------------------------------------------
(* Properties of the queue's scheduling *)

\* the calls whose executor is in flight
InFlight == {id \in Ids : calls[id].status = "executing"}

\* C35: at most one executor started by the queue is in flight at any time:
\* an executor is started only when none is in flight, the one in flight is
\* the one the running pass awaits, and a batch timer that fires or a retry
\* that is put back while a pass runs starts no second pass.
C35_OneExecutorInFlight ==
    [][/\ Cardinality(InFlight') <= 1
       /\ \A id \in Ids : Starts(id) => InFlight = {}
       /\ InFlight' # {} => (processing' /\ InFlight' = {current'})
       /\ (processing /\ batchTimer /\ ~batchTimer')
             => UNCHANGED <<processing, pc, current, processedCount,
                            maxBatchSize>>]_vars

\* a pass awaits a low call on its first run while a critical call that has
\* never run waits at the head of the queue with no batch timer pending: the
\* critical call was enqueued, and the timer it set has fired, during the pass
C35_Witness ==
    /\ pc = "await" /\ processing /\ ~batchTimer
    /\ calls[current].priority = "low" /\ calls[current].executions = 1
    /\ queue # <<>>
    /\ calls[Head(queue)].priority = "critical"
    /\ calls[Head(queue)].executions = 0

\* C36: no lost wake-up: whenever the queue is not empty, a pass is running
\* or the batch timer is pending, whatever the order of enqueue, the timer
\* firing during a pass, a retry being put back and clear().
C36_NoLostWakeUp ==
    queue # <<>> => (processing \/ batchTimer)

\* after a clear() that rejected another call, a call put back by its retry
\* timer waits for the pass that the timer set with it will run
C36_Witness ==
    /\ ~processing /\ batchTimer
    /\ \E id \in Ids : InQueue(id) /\ calls[id].retryCount = 1
    /\ \E id \in Ids : calls[id].outcome = QueueCleared

\* a clear() was called after `id` was enqueued: it rejected a call that was
\* enqueued later than `id`
ClearedAfter(id) ==
    \E later \in Ids : id < later /\ calls[later].outcome = QueueCleared

\* C37: after clear() has returned, no executor of a call that was enqueued
\* before it is started: a call that was in its retry delay or executing
\* when clear() was called is not put back in the queue and run again.
C37_NoStartAfterClear ==
    [][\A id \in Ids : ClearedAfter(id) => ~Starts(id)]_vars

-----------------------------------------------------------------------------
(* Properties of the batched activities' promises *)

\* the promise of the batched activity `a` is pending
BatchedPending(a) ==
    /\ a <= Len(activities)
    /\ activities[a].batched /\ activities[a].status = "pending"
\* the activity `a` has been emitted and its promise is settled
Settled(a) ==
    a <= Len(activities) /\ activities[a].status \in {"resolved", "rejected"}

\* C38: the promise createAgentActivity() returns for a batched activity is
\* settled in the end, resolved or rejected, also when cleanup() is called
\* on the client while the activity waits in a batch that is not flushed yet.
C38_BatchedPromiseSettled ==
    \A a \in 1..MaxActivities : BatchedPending(a) ~> Settled(a)

\* C38 apart from cleanup(): a batched activity is settled in the end, or
\* cleanup() has dropped it from its batch
BatchedPromiseSettledOrDropped ==
    \A a \in 1..MaxActivities :
        BatchedPending(a) ~> (Settled(a) \/ (a <= Len(activities) /\ Dropped(a)))

-----------------------------------------------------------------------------
(* Properties of reads that overlap a write *)

\* the read `r` enqueued its fetch before the write `w` of the same key was
\* called
FetchStartedBefore(r, w) ==
    /\ reads[r].key = writes[w].key
    /\ reads[r].call # 0 /\ reads[r].call < writes[w].call
\* the step in which the fetch of the read `r` returns its issue
FetchReturns(r) == reads[r].status # "fetched" /\ reads'[r].status = "fetched"

\* C39: a fetch of issue(key) that was enqueued or in flight when
\* updateIssue(key) was called does not put the issue it fetched in the
\* cache: when it returns, the cache is left as it is.
C39_EarlierFetchNotCached ==
    [][\A r \in 1..Len(reads) : \A w \in 1..Len(writes) :
          (FetchStartedBefore(r, w) /\ FetchReturns(r)) => cache' = cache]_vars

-----------------------------------------------------------------------------
(* Properties of the queue under a quota rejection *)

\* the normal call `id`, run n times so far, waits in the queue while the
\* tracker is in emergency mode and the reset time has passed
BlockedAfterReset(id, n) ==
    /\ id <= Len(calls) /\ InQueue(id)
    /\ calls[id].priority = "normal" /\ calls[id].executions = n
    /\ getOperationMode = "emergency"
    /\ now >= resetTimestamp
\* the executor of the call `id` has been started more than n times
StartedAfter(id, n) == id <= Len(calls) /\ calls[id].executions > n

\* C40: backpressure is temporary: once a quota rejection has put the
\* tracker in emergency mode and the reset time has passed, a normal call
\* that waits in the queue (the rejected call's retry included) is executed
\* in the end.
C40_BackpressureIsTemporary ==
    \A id \in 1..MaxBackpressureWrites : \A n \in 0..MAX_RETRIES :
        BlockedAfterReset(id, n) ~> StartedAfter(id, n)

\* the count of requests remaining never rises from zero while the client
\* is the tracker's only caller
RemainingStaysAtZero ==
    [][requestsRemaining = 0 => requestsRemaining' = 0]_vars

\* an activity that cleanup() has dropped from its batch stays as it is,
\* whatever is called afterwards
DroppedStaysPending ==
    [][\A a \in 1..Len(activities) : Dropped(a) => Dropped(a)']_vars

====
